---- MODULE Spec2Model ----
(***************************************************************************)
(* Model of the multiclaude client tooling: the Unix-socket RPC clients    *)
(* (DaemonClient, AsyncDaemonClient), the pydantic type mirrors and their  *)
(* helper functions, and the daemon-side state store the clients talk to.  *)
(***************************************************************************)
EXTENDS Integers, Sequences, FiniteSets, TLC

VARIABLES
    sockExists,   \* the socket file exists (Path.exists() of socket_path)
    pc,           \* position of the running client call inside _send_request
    call,         \* the running call: client flavour, method, request
    sock,         \* the call's socket: created / connected / closed
    wire,         \* requests written on the call's connection, in order
    buf,          \* bytes received so far on the call's connection
    nRecv,        \* number of recv() calls issued on the connection
    eof,          \* the peer closed its side before a newline arrived
    outcome,      \* what the finished call handed to its caller
    sent,         \* what _send_request itself returned or raised
    cause,        \* what really happened on the transport (ground truth)
    lastPing,     \* flavour, cause and outcome of the latest finished ping()
    store,        \* the daemon's State tree
    pending,      \* the spawn whose process is being launched, if any
    reply,        \* the latest client call the daemon answered, and its outcome
    observed,     \* the State a get_state() caller holds, if any
    input,        \* the JSON agent object handed to the type mirrors
    probe,        \* the latest call of a type-mirror function and its answers
    file,         \* the state file: existence, content, mtime
    rd,           \* the running StateReader.read() / read_or_empty() call
    w,            \* the StateWatcher and the iteration running on it
    batch         \* changes awatch has seen and not yet delivered

clientVars == <<sockExists, pc, call, sock, wire, buf, nRecv, eof, sent, outcome, cause, lastPing>>

daemonVars == <<store, pending, reply, observed>>

typeVars == <<input, probe>>

fileVars == <<file, rd, w, batch>>

vars == <<clientVars, daemonVars, typeVars, fileVars>>

(***************************************************************************)
(* Bounds                                                                  *)
(***************************************************************************)
\* recv() calls the peer lets a client issue before it closes or stalls
MaxRecv == 3

\* entries of a repository's task history
MaxHistory == 2

\* chunks a peer sends on one connection when both clients are compared
MaxChunks == 2

(***************************************************************************)
(* Socket API models (types.py)                                            *)
(***************************************************************************)
NoArgs == [k \in {} |-> ""]

\* SocketRequest(command=..., args=...): args None is hasArgs = FALSE
SocketRequest(command, hasArgs, args) ==
    [command |-> command, hasArgs |-> hasArgs, args |-> args]

\* JSON values a response's "data" member can hold, by shape
DataKinds == {"null", "{}", "[]", "good", "bad"}

\* values of a response's "error" member; "null" is an absent member
ErrorTexts == {"null", "", "unknown command"}

\* JSON documents a response line can decode to.  schema_ok = FALSE is a
\* document SocketResponse rejects (no boolean "success" member).
ResponseDocs ==
    [schema_ok : {TRUE}, success : BOOLEAN, data : DataKinds, error : ErrorTexts]
    \cup {[schema_ok |-> FALSE, success |-> FALSE, data |-> "null", error |-> "null"]}

\* SocketResponse(success=..., data=..., error=...)
SocketResponse(doc) == [success |-> doc.success, data |-> doc.data, error |-> doc.error]

(***************************************************************************)
(* What a call hands to its caller: a returned value or a raised exception *)
(***************************************************************************)
Return(v) == [kind |-> "return", exc |-> "", msg |-> "", value |-> v]

Raise(e, m) == [kind |-> "raise", exc |-> e, msg |-> m, value |-> ""]

\* class DaemonError(Exception)
DaemonError(m) == Raise("DaemonError", m)

NoOutcome == [kind |-> "none", exc |-> "", msg |-> "", value |-> ""]

PyBool(b) == IF b THEN "True" ELSE "False"

(***************************************************************************)
(* Bytes.  A response is a sequence of symbols: "L" and "R" are the two    *)
(* halves of one JSON document (the document is exactly <<"L","R">>), "n"  *)
(* is a newline, "x" is a byte that belongs to no JSON document.           *)
(***************************************************************************)
Chunks ==
    { <<"L", "R", "n">>,                 \* a whole response line
      <<"L", "R">>,                      \* a document, newline not yet sent
      <<"L">>,                           \* the first half of a document
      <<"R", "n">>,                      \* the second half and the newline
      <<"n">>,                           \* a newline alone
      <<"x", "n">>,                      \* a line that is not JSON
      <<"L", "R", "n", "L", "R", "n">> } \* two response lines at once

HasNewline(s) == \E i \in 1..Len(s) : s[i] = "n"

FirstNewline(s) == CHOOSE i \in 1..Len(s) : s[i] = "n" /\ \A j \in 1..(i-1) : s[j] # "n"

RECURSIVE LStrip(_)
LStrip(s) == IF s # <<>> /\ Head(s) = "n" THEN LStrip(Tail(s)) ELSE s

RECURSIVE RStrip(_)
RStrip(s) ==
    IF s # <<>> /\ s[Len(s)] = "n" THEN RStrip(SubSeq(s, 1, Len(s) - 1)) ELSE s

\* str.strip(): leading and trailing whitespace removed
Strip(s) == RStrip(LStrip(s))

\* StreamReader.readline(): through the first newline, or all there is at EOF
ReadLine(s) == IF HasNewline(s) THEN SubSeq(s, 1, FirstNewline(s)) ELSE s

IsJsonDocument(text) == text = <<"L", "R">>

\* SocketResponse.model_validate_json(text), the text decoding to doc when it
\* is a JSON document: pydantic raises ValidationError for text that is not
\* JSON and for JSON that does not match the model.
ModelValidateJson(text, doc) ==
    IF IsJsonDocument(text) /\ doc.schema_ok
    THEN [ok |-> TRUE, resp |-> SocketResponse(doc), exc |-> NoOutcome]
    ELSE [ok |-> FALSE, resp |-> SocketResponse(doc),
          exc |-> Raise("ValidationError", "")]

(***************************************************************************)
(* DaemonClient / AsyncDaemonClient (client.py)                            *)
(***************************************************************************)
SyncMethods ==
    {"ping", "status", "get_state", "list_repos", "get_repo", "list_agents",
     "spawn_worker", "remove_agent", "task_history", "send_message", "list_messages"}

AsyncMethods == {"ping", "status", "get_state", "list_repos", "spawn_worker"}

MethodsOf(client) == IF client = "sync" THEN SyncMethods ELSE AsyncMethods

\* the methods that hand the response through _require_success
DataMethods == SyncMethods \ {"ping", "remove_agent"}

\* The request a method builds.  repo is the caller's repo argument, "" when
\* the caller passes None or an empty string (`if repo:` drops both).
RequestOf(method, repo) ==
    LET withRepo == IF repo = "" THEN NoArgs ELSE [k \in {"repo"} |-> repo]
        plus(f, k, v) == [x \in DOMAIN f \cup {k} |-> IF x = k THEN v ELSE f[x]]
    IN CASE method \in {"ping", "status", "get_state", "list_repos"} ->
              SocketRequest(method, FALSE, NoArgs)
         [] method = "get_repo" ->
              SocketRequest(method, TRUE, [k \in {"name"} |-> repo])
         [] method = "list_agents" ->
              SocketRequest(method, repo # "", withRepo)
         [] method = "spawn_worker" ->
              SocketRequest(method, TRUE, plus(withRepo, "task", "fix bug"))
         [] method = "remove_agent" ->
              SocketRequest(method, TRUE, plus(withRepo, "name", "a1"))
         [] method = "task_history" ->
              SocketRequest(method, repo # "", withRepo)
         [] method = "send_message" ->
              SocketRequest(method, TRUE,
                  [k \in {"to", "body", "from"} |->
                      IF k = "to" THEN "a1" ELSE IF k = "body" THEN "hi" ELSE "external"])
         [] method = "list_messages" ->
              SocketRequest(method, FALSE, NoArgs)

\* The request task_history(repo, limit, status) builds.  limit is <<>> for
\* None and <<n>> for an int, status is "" for None; `if limit:` and
\* `if status:` drop None, 0 and "", and `args or None` sends no args at all
\* when nothing is left.
task_history_request(repo, limit, status) ==
    LET keys == (IF repo # "" THEN {"repo"} ELSE {})
                \cup (IF limit # <<>> /\ limit[1] # 0 THEN {"limit"} ELSE {})
                \cup (IF status # "" THEN {"status"} ELSE {})
    IN SocketRequest("task_history", keys # {},
                     [k \in keys |-> CASE k = "repo" -> repo
                                       [] k = "limit" -> limit[1]
                                       [] OTHER -> status])

\* repo arguments a caller passes
RepoArgs == {"", "r1"}

\* a _require_success that hands the data on whatever the success flag says
RequireSuccessUnchecked(response) == Return(response.data)

\* _require_success(response)
RequireSuccess(response) ==
    IF ~response.success
    THEN DaemonError(IF response.error \in {"null", ""} THEN "Unknown error"
                     ELSE response.error)
    ELSE Return(response.data)

Falsy(data) == data \in {"null", "{}", "[]"}

\* What a data method makes of the data _require_success returned.  "bad" is
\* a JSON number; any value outside DataKinds \ {"good"} is data of the shape
\* the method expects, and for spawn_worker and send_message it is the value
\* of the object's "name" / "id" member.
FromData(method, data) ==
    CASE method = "status" ->
            IF data = "good" THEN Return("DaemonStatus") ELSE Raise("ValidationError", "")
      [] method = "get_state" ->
            IF data = "good" THEN Return("State")
            ELSE IF data = "{}" THEN Return("State()")
            ELSE Raise("ValidationError", "")
      [] method = "get_repo" ->
            IF data = "good" THEN Return("Repository") ELSE Raise("ValidationError", "")
      [] method \in {"list_repos", "list_messages"} ->
            IF Falsy(data) THEN Return("[]")
            ELSE IF data = "good" THEN Return("list") ELSE Raise("TypeError", "")
      [] method = "list_agents" ->
            IF Falsy(data) THEN Return("{}")
            ELSE IF data = "good" THEN Return("dict") ELSE Raise("TypeError", "")
      [] method = "task_history" ->
            IF Falsy(data) THEN Return("[]")
            ELSE IF data = "good" THEN Return("entries") ELSE Raise("TypeError", "")
      [] method \in {"spawn_worker", "send_message"} ->
            IF data \in {"null", "[]", "bad"} THEN Raise("AttributeError", "")
            ELSE IF data = "{}" THEN Return("")
            ELSE Return(data)

\* command methods that all pass their response through _require_success
MethodResultRequiresAll(method, sr) ==
    IF ~sr.ok THEN sr.exc
    ELSE LET data == RequireSuccess(sr.resp)
         IN IF data.kind = "raise" THEN data
            ELSE IF method \in {"ping", "remove_agent"} THEN Return("True")
            ELSE FromData(method, data.value)

\* The body of a command method around its _send_request call.  sr is what
\* _send_request did: sr.ok with the response, or the exception it raised.
MethodResult(method, sr) ==
    CASE method = "ping" ->
            IF sr.ok THEN Return(PyBool(sr.resp.success))
            ELSE IF sr.exc.exc = "DaemonError" THEN Return("False")
            ELSE sr.exc
      [] method = "remove_agent" ->
            IF sr.ok THEN Return(PyBool(sr.resp.success)) ELSE sr.exc
      [] OTHER ->
            IF ~sr.ok THEN sr.exc
            ELSE LET data == RequireSuccess(sr.resp)
                 IN IF data.kind = "raise" THEN data ELSE FromData(method, data.value)

NoResponse == [success |-> FALSE, data |-> "null", error |-> "null"]

\* _send_request returned response
Responded(response) == [ok |-> TRUE, resp |-> response, exc |-> NoOutcome]

\* _send_request raised exc
Failed(exc) == [ok |-> FALSE, resp |-> NoResponse, exc |-> exc]

NoSent == [ok |-> FALSE, resp |-> NoResponse, exc |-> NoOutcome]

NoCall == [client |-> "", method |-> "", request |-> SocketRequest("", FALSE, NoArgs)]

NoPing == [client |-> "", cause |-> "", outcome |-> NoOutcome]

\* request.model_dump_json() + "\n"
RequestLine(request) == [request |-> request, newline |-> TRUE]

\* a recv loop that ends on EOF only
RecvLoopBreaksOnEofOnly(chunk) == chunk = <<>>

\* the recv loop ends on an empty chunk (EOF) or a chunk holding a newline
RecvLoopBreaks(chunk) == chunk = <<>> \/ HasNewline(chunk)

\* the message of the DaemonError a timed-out wait becomes
TimeoutMessage(client) == IF client = "sync" THEN "Socket error" ELSE "Request timed out"

\* the call ends: _send_request's result goes through the method's body,
\* and _send_request's locals (chunks, response_data) are gone
Finish(sentv, causev) ==
    /\ pc' = "done"
    /\ buf' = <<>>
    /\ nRecv' = 0
    /\ eof' = FALSE
    /\ sent' = sentv
    /\ outcome' = MethodResult(call.method, sentv)
    /\ cause' = causev

TypeOK ==
    /\ sockExists \in BOOLEAN
    /\ pc \in {"idle", "connect", "send", "recv", "parse", "done"}
    /\ sock \in {"none", "created", "connected", "closed"}
    /\ nRecv \in 0..MaxRecv + 1
    /\ eof \in BOOLEAN

ClientInit ==
    /\ sockExists \in BOOLEAN
    /\ pc = "idle"
    /\ call = NoCall
    /\ sock = "none"
    /\ wire = <<>>
    /\ buf = <<>>
    /\ nRecv = 0
    /\ eof = FALSE
    /\ sent = NoSent
    /\ outcome = NoOutcome
    /\ cause = ""
    /\ lastPing = NoPing

\* A caller invokes a command method: the request is built and
\* _send_request checks that the socket file exists.
Call(client, method, repo) ==
    /\ pc = "idle"
    /\ call' = [client |-> client, method |-> method, request |-> RequestOf(method, repo)]
    /\ sock' = "none"
    /\ wire' = <<>>
    /\ buf' = <<>>
    /\ nRecv' = 0
    /\ eof' = FALSE
    /\ IF ~sockExists
       THEN /\ pc' = "done"
            /\ sent' = Failed(DaemonError("Socket not found"))
            /\ outcome' = MethodResult(method, Failed(DaemonError("Socket not found")))
            /\ cause' = "socket_absent"
       ELSE /\ pc' = "connect"
            /\ sent' = NoSent
            /\ outcome' = NoOutcome
            /\ cause' = ""
    /\ UNCHANGED <<sockExists, lastPing>>
    /\ UNCHANGED <<daemonVars, typeVars, fileVars>>

\* socket.socket(); settimeout(30.0); connect()  /  wait_for(open_unix_connection)
Connect(result) ==
    /\ pc = "connect"
    /\ result \in (IF sockExists THEN {"ok", "refused", "timeout"} ELSE {"enoent"})
    /\ IF result = "ok"
       THEN /\ sock' = "connected"
            /\ pc' = "send"
            /\ UNCHANGED <<buf, nRecv, eof, sent, outcome, cause>>
       ELSE \* the sync client's socket object stays as created; asyncio closes
            \* the socket of a connection attempt that fails or is cancelled
            /\ sock' = IF call.client = "sync" THEN "created" ELSE "closed"
            /\ Finish(Failed(DaemonError(IF result = "timeout"
                                          THEN TimeoutMessage(call.client)
                                          ELSE "Socket error")),
                      IF result = "timeout" THEN "timeout_connect" ELSE "refused")
    /\ UNCHANGED <<sockExists, call, wire, lastPing>>
    /\ UNCHANGED <<daemonVars, typeVars, fileVars>>

\* sock.sendall(request_data.encode())  /  writer.write(...); await writer.drain()
Send(result) ==
    /\ pc = "send"
    /\ result \in (IF call.client = "sync" THEN {"ok", "timeout", "reset"}
                   ELSE {"ok", "reset"})
    /\ IF result = "ok"
       THEN /\ wire' = Append(wire, RequestLine(call.request))
            /\ pc' = "recv"
            /\ UNCHANGED <<buf, nRecv, eof, sent, outcome, cause>>
       ELSE /\ wire' = wire
            /\ Finish(Failed(DaemonError("Socket error")),
                      IF result = "timeout" THEN "timeout_send" ELSE "reset")
    /\ UNCHANGED <<sockExists, call, sock, lastPing>>
    /\ UNCHANGED <<daemonVars, typeVars, fileVars>>

\* one sock.recv(4096) of the loop  /  one arrival of data inside readline()
RecvChunk(chunk) ==
    /\ pc = "recv"
    /\ nRecv < MaxRecv
    /\ nRecv' = nRecv + 1
    /\ buf' = buf \o chunk
    /\ pc' = IF RecvLoopBreaks(chunk) THEN "parse" ELSE "recv"
    /\ UNCHANGED <<sockExists, call, sock, wire, eof, sent, outcome, cause, lastPing>>
    /\ UNCHANGED <<daemonVars, typeVars, fileVars>>

\* recv() returns b"": the peer closed its side
RecvEof ==
    /\ pc = "recv"
    /\ nRecv' = nRecv + 1
    /\ eof' = TRUE
    /\ pc' = IF RecvLoopBreaks(<<>>) THEN "parse" ELSE "recv"
    /\ UNCHANGED <<sockExists, call, sock, wire, buf, sent, outcome, cause, lastPing>>
    /\ UNCHANGED <<daemonVars, typeVars, fileVars>>

\* recv() raises: socket.timeout after 30 s, or a connection reset
RecvFails(result) ==
    /\ pc = "recv"
    /\ result \in {"timeout", "reset"}
    /\ Finish(Failed(DaemonError(IF result = "timeout" THEN TimeoutMessage(call.client)
                                  ELSE "Socket error")),
              IF result = "timeout" THEN "timeout_recv" ELSE "reset")
    /\ UNCHANGED <<sockExists, call, sock, wire, lastPing>>
    /\ UNCHANGED <<daemonVars, typeVars, fileVars>>

\* The text the client takes as the response: the sync client joins every
\* chunk and strips; the async client takes readline()'s line.
ResponseData(client, bytes) == IF client = "sync" THEN Strip(bytes) ELSE ReadLine(bytes)

\* sock.close(); the empty-response check; SocketResponse.model_validate_json
Parse(doc) ==
    /\ pc = "parse"
    /\ sock' = "closed"
    /\ LET data == ResponseData(call.client, buf)
           text == Strip(data)
       IN IF data = <<>>
          THEN Finish(Failed(DaemonError("Empty response from daemon")), "empty")
          ELSE Finish(ModelValidateJson(text, doc),
                      IF text = <<>> THEN "empty"
                      ELSE IF ~IsJsonDocument(text) THEN "malformed"
                      ELSE IF ~doc.schema_ok THEN "schema_invalid"
                      ELSE IF doc.success THEN "answered_ok" ELSE "answered_fail")
    /\ UNCHANGED <<sockExists, call, wire, lastPing>>
    /\ UNCHANGED <<daemonVars, typeVars, fileVars>>

\* the caller takes the outcome; the call's locals are gone
CallReturns ==
    /\ pc = "done"
    /\ pc' = "idle"
    /\ lastPing' = IF call.method = "ping"
                   THEN [client |-> call.client, cause |-> cause, outcome |-> outcome]
                   ELSE lastPing
    /\ call' = NoCall
    /\ sock' = "none"
    /\ wire' = <<>>
    /\ buf' = <<>>
    /\ nRecv' = 0
    /\ eof' = FALSE
    /\ sent' = NoSent
    /\ outcome' = NoOutcome
    /\ cause' = ""
    /\ UNCHANGED sockExists
    /\ UNCHANGED <<daemonVars, typeVars, fileVars>>

(* Both clients against the same peer.  What the peer does on a connection *)
(* is the stage it lets the exchange reach, the chunks it sends, how the    *)
(* connection ends if no line was completed, and the document its line      *)
(* decodes to.                                                              *)
ChunkRuns == UNION {[1..n -> Chunks] : n \in 0..MaxChunks}

Behaviours ==
    [kind : {"behaviour"}, stage : {"refused", "timeout_connect", "reset_send"},
     chunks : {<<>>}, end : {"eof"},
     doc : {[schema_ok |-> FALSE, success |-> FALSE, data |-> "null", error |-> "null"]}]
    \cup [kind : {"behaviour"}, stage : {"answers"}, chunks : ChunkRuns,
          end : {"eof", "timeout", "reset"}, doc : ResponseDocs]

\* the bytes the receive loop has when it ends: every chunk up to the first
\* that holds a newline
RECURSIVE Received(_)
Received(chunks) ==
    IF chunks = <<>> THEN <<>>
    ELSE IF RecvLoopBreaks(Head(chunks)) THEN Head(chunks)
    ELSE Head(chunks) \o Received(Tail(chunks))

\* _send_request of the sync or the async client against the behaviour b of
\* the peer, the socket file existing
SendRequest(client, b) ==
    CASE b.stage = "refused" -> Failed(DaemonError("Socket error"))
      [] b.stage = "timeout_connect" -> Failed(DaemonError(TimeoutMessage(client)))
      [] b.stage = "reset_send" -> Failed(DaemonError("Socket error"))
      [] OTHER ->
            LET bytes == Received(b.chunks)
                data == ResponseData(client, bytes)
            IN IF ~HasNewline(bytes) /\ b.end # "eof"
               THEN Failed(DaemonError(IF b.end = "timeout" THEN TimeoutMessage(client)
                                       ELSE "Socket error"))
               ELSE IF data = <<>>
               THEN Failed(DaemonError("Empty response from daemon"))
               ELSE ModelValidateJson(Strip(data), b.doc)

\* the same method called on a DaemonClient and on an AsyncDaemonClient
\* whose peers behave alike
CallTwins(method) ==
    /\ input.kind = "behaviour"
    /\ probe.op = ""
    /\ probe' = [op |-> "twins", arg |-> method,
                 sync |-> MethodResult(method, SendRequest("sync", input)),
                 async |-> MethodResult(method, SendRequest("async", input))]
    /\ UNCHANGED <<input>>
    /\ UNCHANGED <<clientVars, daemonVars, fileVars>>

\* the daemon starts and binds its socket
SocketAppears ==
    /\ ~sockExists
    /\ sockExists' = TRUE
    /\ UNCHANGED <<pc, call, sock, wire, buf, nRecv, eof, sent, outcome, cause, lastPing>>
    /\ UNCHANGED <<daemonVars, typeVars, fileVars>>

\* the daemon stops and unlinks its socket
SocketDisappears ==
    /\ sockExists
    /\ sockExists' = FALSE
    /\ UNCHANGED <<pc, call, sock, wire, buf, nRecv, eof, sent, outcome, cause, lastPing>>
    /\ UNCHANGED <<daemonVars, typeVars, fileVars>>

(***************************************************************************)
(* Type mirrors (types.py of the template and of the reference)            *)
(***************************************************************************)
AgentTypes ==
    {"supervisor", "worker", "merge-queue", "pr-shepherd", "workspace", "review",
     "generic-persistent"}

\* a persistent set that has lost "workspace"
PersistentWithoutWorkspace ==
    {"supervisor", "merge-queue", "pr-shepherd", "generic-persistent"}

\* template: PERSISTENT_AGENT_TYPES
PERSISTENT_AGENT_TYPES ==
    {"supervisor", "merge-queue", "pr-shepherd", "workspace", "generic-persistent"}

\* template: is_persistent_agent_type(agent_type)
is_persistent_agent_type(agent_type) == agent_type \in PERSISTENT_AGENT_TYPES

\* a persistent set that has gained "review"
PersistentWithReview ==
    {"supervisor", "merge-queue", "pr-shepherd", "workspace", "generic-persistent",
     "review"}

\* reference: PERSISTENT_AGENT_TYPES
REF_PERSISTENT_AGENT_TYPES ==
    {"supervisor", "merge-queue", "pr-shepherd", "workspace", "generic-persistent"}

\* reference: is_persistent_agent_type(agent_type)
ref_is_persistent_agent_type(agent_type) == agent_type \in REF_PERSISTENT_AGENT_TYPES

\* A JSON object is the sequence of its <<key, value>> members in document
\* order.  A member of an agent, entry or repository object that is missing
\* reads "absent", a JSON null reads "null"; an integer member is <<>> when
\* missing and <<n>> when present; a list or object member is a record with
\* its kind ("absent", "null" or "value").
\* A Python dict is the sequence of its items, in insertion order; None is
\* "None" (an absent int is <<>>, an absent list or config has none = TRUE).
DictKeys(d) == {d[i][1] : i \in 1..Len(d)}

\* a dict that takes every item as a new one
DictSetAppends(d, k, v) == Append(d, <<k, v>>)

\* d[k] = v on a dict: an existing key keeps its place and takes the value
DictSet(d, k, v) ==
    IF k \in DictKeys(d)
    THEN [i \in 1..Len(d) |-> IF d[i][1] = k THEN <<k, v>> ELSE d[i]]
    ELSE Append(d, <<k, v>>)

\* a field `str | None = None` that reads an empty string as None
OptValueFalsyNone(m) == IF m \in {"absent", "null", ""} THEN "None" ELSE m

\* a field `str | None = None` validated from a JSON member
OptValue(m) == IF m \in {"absent", "null"} THEN "None" ELSE m

\* model_dump_json of a `str | None` field
OptJson(v) == IF v = "None" THEN "null" ELSE v

\* a field `bool | None = None` validated from a JSON member
BoolValue(m) ==
    CASE m = "true" -> "True"
      [] m = "false" -> "False"
      [] OTHER -> "None"

\* model_dump_json of a `bool | None` field
BoolJson(v) ==
    CASE v = "True" -> "true"
      [] v = "False" -> "false"
      [] OTHER -> "null"

\* ISO 8601 texts of JSON documents and the datetime values they parse to
DatetimeTexts == {"t0", "t1", "t2"}

DatetimeValue(m) ==
    CASE m = "t0" -> "datetime0"
      [] m = "t1" -> "datetime1"
      [] m = "t2" -> "datetime2"
      [] OTHER -> "None"

DatetimeJson(v) ==
    CASE v = "datetime0" -> "t0"
      [] v = "datetime1" -> "t1"
      [] v = "datetime2" -> "t2"
      [] OTHER -> "null"

TrackModes == {"all", "author", "assigned"}

TaskStatuses == {"open", "merged", "closed", "no-pr", "failed", "unknown"}

\* an Agent validation that asks for the type only
AgentFieldsOKTypeOnly(obj) == obj.type \in AgentTypes

\* Agent: type is an AgentType; worktree_path, tmux_window, session_id and
\* created_at are required; pid is an int when given
AgentFieldsOK(obj) ==
    /\ obj.type \in AgentTypes
    /\ obj.worktree_path \notin {"absent", "null"}
    /\ obj.tmux_window \notin {"absent", "null"}
    /\ obj.session_id \notin {"absent", "null"}
    /\ obj.created_at \in DatetimeTexts
    /\ obj.last_nudge \in {"absent", "null"} \cup DatetimeTexts
    /\ obj.ready_for_cleanup \in {"absent", "null", "true", "false"}
    /\ Len(obj.pid) <= 1

\* Agent.model_validate(obj): the Agent, optional members defaulted
AgentValue(obj) ==
    [type |-> obj.type, worktree_path |-> obj.worktree_path,
     tmux_window |-> obj.tmux_window, session_id |-> obj.session_id,
     pid |-> IF obj.pid = <<>> THEN 0 ELSE obj.pid[1],
     task |-> OptValue(obj.task), summary |-> OptValue(obj.summary),
     failure_reason |-> OptValue(obj.failure_reason),
     created_at |-> DatetimeValue(obj.created_at),
     last_nudge |-> DatetimeValue(obj.last_nudge),
     ready_for_cleanup |-> BoolValue(obj.ready_for_cleanup)]

\* Agent.model_dump_json(): every field is written, None as null
AgentJson(a) ==
    [type |-> a.type, worktree_path |-> a.worktree_path,
     tmux_window |-> a.tmux_window, session_id |-> a.session_id,
     pid |-> <<a.pid>>,
     task |-> OptJson(a.task), summary |-> OptJson(a.summary),
     failure_reason |-> OptJson(a.failure_reason),
     created_at |-> DatetimeJson(a.created_at),
     last_nudge |-> DatetimeJson(a.last_nudge),
     ready_for_cleanup |-> BoolJson(a.ready_for_cleanup)]

\* the dict[str, Agent] pydantic builds from a JSON object's members
RECURSIVE AgentsDict(_)
AgentsDict(members) ==
    IF members = <<>> THEN <<>>
    ELSE LET last == members[Len(members)]
         IN DictSet(AgentsDict(SubSeq(members, 1, Len(members) - 1)),
                    last[1], AgentValue(last[2]))

\* TaskHistoryEntry: name, task, branch, status and created_at are required
EntryFieldsOK(obj) ==
    /\ obj.name \notin {"absent", "null"}
    /\ obj.task \notin {"absent", "null"}
    /\ obj.branch \notin {"absent", "null"}
    /\ obj.status \in TaskStatuses
    /\ obj.created_at \in DatetimeTexts
    /\ obj.completed_at \in {"absent", "null"} \cup DatetimeTexts
    /\ Len(obj.pr_number) <= 1

\* TaskHistoryEntry.model_validate(obj)
EntryValue(obj) ==
    [name |-> obj.name, task |-> obj.task, branch |-> obj.branch,
     pr_url |-> OptValue(obj.pr_url), pr_number |-> obj.pr_number,
     status |-> obj.status, summary |-> OptValue(obj.summary),
     failure_reason |-> OptValue(obj.failure_reason),
     created_at |-> DatetimeValue(obj.created_at),
     completed_at |-> DatetimeValue(obj.completed_at)]

\* TaskHistoryEntry.model_dump_json()
EntryJson(e) ==
    [name |-> e.name, task |-> e.task, branch |-> e.branch,
     pr_url |-> OptJson(e.pr_url), pr_number |-> e.pr_number,
     status |-> e.status, summary |-> OptJson(e.summary),
     failure_reason |-> OptJson(e.failure_reason),
     created_at |-> DatetimeJson(e.created_at),
     completed_at |-> DatetimeJson(e.completed_at)]

\* a list member of a JSON object, and a list field that may be None
JsonAbsent == [kind |-> "absent", items |-> <<>>]

JsonNull == [kind |-> "null", items |-> <<>>]

JsonItems(items) == [kind |-> "value", items |-> items]

NoList == [none |-> TRUE, items |-> <<>>]

SomeList(items) == [none |-> FALSE, items |-> items]

\* a config member of a JSON object, and a config field that may be None
JsonNoConfig(kind) == [kind |-> kind, enabled |-> "absent", track_mode |-> "absent"]

JsonConfig(enabled, track_mode) ==
    [kind |-> "value", enabled |-> enabled, track_mode |-> track_mode]

NoConfig == [none |-> TRUE, enabled |-> FALSE, track_mode |-> ""]

ConfigFieldsOK(m) ==
    m.kind = "value" =>
        /\ m.enabled \in {"absent", "true", "false"}
        /\ m.track_mode \in {"absent"} \cup TrackModes

\* a MergeQueueConfig that tracks the author's PRs by default
MergeQueueConfigAuthor(m) ==
    [none |-> FALSE,
     enabled |-> m.enabled # "false",
     track_mode |-> IF m.track_mode = "absent" THEN "author" ELSE m.track_mode]

\* MergeQueueConfig.model_validate(m): enabled = True, track_mode = "all"
MergeQueueConfig(m) ==
    [none |-> FALSE,
     enabled |-> m.enabled # "false",
     track_mode |-> IF m.track_mode = "absent" THEN "all" ELSE m.track_mode]

\* PRShepherdConfig.model_validate(m): enabled = True, track_mode = "author"
PRShepherdConfig(m) ==
    [none |-> FALSE,
     enabled |-> m.enabled # "false",
     track_mode |-> IF m.track_mode = "absent" THEN "author" ELSE m.track_mode]

\* default_merge_queue_config()
default_merge_queue_config == MergeQueueConfig(JsonConfig("true", "all"))

\* default_pr_shepherd_config()
default_pr_shepherd_config == PRShepherdConfig(JsonConfig("true", "author"))

\* model_dump_json of a config field
ConfigJson(c) ==
    IF c.none THEN JsonNoConfig("null")
    ELSE JsonConfig(IF c.enabled THEN "true" ELSE "false", c.track_mode)

\* Repository: github_url and tmux_session are required, every agent, entry
\* and config validates
RepositoryFieldsOK(obj) ==
    /\ obj.github_url \notin {"absent", "null"}
    /\ obj.tmux_session \notin {"absent", "null"}
    /\ obj.agents.kind # "null"
    /\ \A i \in 1..Len(obj.agents.items) : AgentFieldsOK(obj.agents.items[i][2])
    /\ \A i \in 1..Len(obj.task_history.items) : EntryFieldsOK(obj.task_history.items[i])
    /\ ConfigFieldsOK(obj.merge_queue_config)
    /\ ConfigFieldsOK(obj.pr_shepherd_config)

\* Repository.model_validate(obj)
RepositoryValue(obj) ==
    [github_url |-> obj.github_url, tmux_session |-> obj.tmux_session,
     agents |-> AgentsDict(obj.agents.items),
     task_history |-> IF obj.task_history.kind = "value"
                      THEN SomeList([i \in 1..Len(obj.task_history.items) |->
                                        EntryValue(obj.task_history.items[i])])
                      ELSE NoList,
     merge_queue_config |-> IF obj.merge_queue_config.kind = "value"
                            THEN MergeQueueConfig(obj.merge_queue_config) ELSE NoConfig,
     pr_shepherd_config |-> IF obj.pr_shepherd_config.kind = "value"
                            THEN PRShepherdConfig(obj.pr_shepherd_config) ELSE NoConfig,
     target_branch |-> OptValue(obj.target_branch)]

\* Repository.model_dump_json()
RepositoryJson(r) ==
    [github_url |-> r.github_url, tmux_session |-> r.tmux_session,
     agents |-> JsonItems([i \in 1..Len(r.agents) |->
                              <<r.agents[i][1], AgentJson(r.agents[i][2])>>]),
     task_history |-> IF r.task_history.none THEN JsonNull
                      ELSE JsonItems([i \in 1..Len(r.task_history.items) |->
                                         EntryJson(r.task_history.items[i])]),
     merge_queue_config |-> ConfigJson(r.merge_queue_config),
     pr_shepherd_config |-> ConfigJson(r.pr_shepherd_config),
     target_branch |-> OptJson(r.target_branch)]

\* the dict[str, Repository] pydantic builds from a JSON object's members
RECURSIVE ReposDict(_)
ReposDict(members) ==
    IF members = <<>> THEN <<>>
    ELSE LET last == members[Len(members)]
         IN DictSet(ReposDict(SubSeq(members, 1, Len(members) - 1)),
                    last[1], RepositoryValue(last[2]))

\* State.model_validate(doc): ok with the State, or a ValidationError
StateModelValidate(doc) ==
    [ok |-> \A i \in 1..Len(doc.repos) : RepositoryFieldsOK(doc.repos[i][2]),
     state |-> [repos |-> ReposDict(doc.repos), current_repo |-> OptValue(doc.current_repo)]]

\* State.model_dump_json()
StateJson(st) ==
    [repos |-> [i \in 1..Len(st.repos) |-> <<st.repos[i][1], RepositoryJson(st.repos[i][2])>>],
     current_repo |-> OptJson(st.current_repo)]

\* reference mirror: Agent has no default for pid, and created_at and
\* last_nudge are strings
RefAgentFieldsOK(obj) ==
    /\ obj.type \in AgentTypes
    /\ obj.worktree_path \notin {"absent", "null"}
    /\ obj.tmux_window \notin {"absent", "null"}
    /\ obj.session_id \notin {"absent", "null"}
    /\ obj.created_at \notin {"absent", "null"}
    /\ obj.ready_for_cleanup \in {"absent", "null", "true", "false"}
    /\ Len(obj.pid) = 1

\* reference mirror: Agent.model_validate(obj)
RefAgentValue(obj) ==
    [type |-> obj.type, worktree_path |-> obj.worktree_path,
     tmux_window |-> obj.tmux_window, session_id |-> obj.session_id,
     pid |-> obj.pid[1],
     task |-> OptValue(obj.task), summary |-> OptValue(obj.summary),
     failure_reason |-> OptValue(obj.failure_reason),
     created_at |-> obj.created_at,
     last_nudge |-> OptValue(obj.last_nudge),
     ready_for_cleanup |-> BoolValue(obj.ready_for_cleanup)]

\* reference mirror: Agent.model_dump_json()
RefAgentJson(a) ==
    [type |-> a.type, worktree_path |-> a.worktree_path,
     tmux_window |-> a.tmux_window, session_id |-> a.session_id,
     pid |-> <<a.pid>>,
     task |-> OptJson(a.task), summary |-> OptJson(a.summary),
     failure_reason |-> OptJson(a.failure_reason),
     created_at |-> a.created_at,
     last_nudge |-> OptJson(a.last_nudge),
     ready_for_cleanup |-> BoolJson(a.ready_for_cleanup)]

RECURSIVE RefAgentsDict(_)
RefAgentsDict(members) ==
    IF members = <<>> THEN <<>>
    ELSE LET last == members[Len(members)]
         IN DictSet(RefAgentsDict(SubSeq(members, 1, Len(members) - 1)),
                    last[1], RefAgentValue(last[2]))

\* reference mirror: TaskHistoryEntry, created_at and completed_at strings
RefEntryFieldsOK(obj) ==
    /\ obj.name \notin {"absent", "null"}
    /\ obj.task \notin {"absent", "null"}
    /\ obj.branch \notin {"absent", "null"}
    /\ obj.status \in TaskStatuses
    /\ obj.created_at \notin {"absent", "null"}
    /\ Len(obj.pr_number) <= 1

RefEntryValue(obj) ==
    [name |-> obj.name, task |-> obj.task, branch |-> obj.branch,
     pr_url |-> OptValue(obj.pr_url), pr_number |-> obj.pr_number,
     status |-> obj.status, summary |-> OptValue(obj.summary),
     failure_reason |-> OptValue(obj.failure_reason),
     created_at |-> obj.created_at,
     completed_at |-> OptValue(obj.completed_at)]

RefEntryJson(e) ==
    [name |-> e.name, task |-> e.task, branch |-> e.branch,
     pr_url |-> OptJson(e.pr_url), pr_number |-> e.pr_number,
     status |-> e.status, summary |-> OptJson(e.summary),
     failure_reason |-> OptJson(e.failure_reason),
     created_at |-> e.created_at,
     completed_at |-> OptJson(e.completed_at)]

\* reference mirror: Repository has no default for agents
RefRepositoryFieldsOK(obj) ==
    /\ obj.github_url \notin {"absent", "null"}
    /\ obj.tmux_session \notin {"absent", "null"}
    /\ obj.agents.kind = "value"
    /\ \A i \in 1..Len(obj.agents.items) : RefAgentFieldsOK(obj.agents.items[i][2])
    /\ \A i \in 1..Len(obj.task_history.items) : RefEntryFieldsOK(obj.task_history.items[i])
    /\ ConfigFieldsOK(obj.merge_queue_config)
    /\ ConfigFieldsOK(obj.pr_shepherd_config)

RefRepositoryValue(obj) ==
    [github_url |-> obj.github_url, tmux_session |-> obj.tmux_session,
     agents |-> RefAgentsDict(obj.agents.items),
     task_history |-> IF obj.task_history.kind = "value"
                      THEN SomeList([i \in 1..Len(obj.task_history.items) |->
                                        RefEntryValue(obj.task_history.items[i])])
                      ELSE NoList,
     merge_queue_config |-> IF obj.merge_queue_config.kind = "value"
                            THEN MergeQueueConfig(obj.merge_queue_config) ELSE NoConfig,
     pr_shepherd_config |-> IF obj.pr_shepherd_config.kind = "value"
                            THEN PRShepherdConfig(obj.pr_shepherd_config) ELSE NoConfig,
     target_branch |-> OptValue(obj.target_branch)]

RefRepositoryJson(r) ==
    [github_url |-> r.github_url, tmux_session |-> r.tmux_session,
     agents |-> JsonItems([i \in 1..Len(r.agents) |->
                              <<r.agents[i][1], RefAgentJson(r.agents[i][2])>>]),
     task_history |-> IF r.task_history.none THEN JsonNull
                      ELSE JsonItems([i \in 1..Len(r.task_history.items) |->
                                         RefEntryJson(r.task_history.items[i])]),
     merge_queue_config |-> ConfigJson(r.merge_queue_config),
     pr_shepherd_config |-> ConfigJson(r.pr_shepherd_config),
     target_branch |-> OptJson(r.target_branch)]

RECURSIVE RefReposDict(_)
RefReposDict(members) ==
    IF members = <<>> THEN <<>>
    ELSE LET last == members[Len(members)]
         IN DictSet(RefReposDict(SubSeq(members, 1, Len(members) - 1)),
                    last[1], RefRepositoryValue(last[2]))

\* reference mirror: parse_state(data)
parse_state(doc) ==
    [ok |-> \A i \in 1..Len(doc.repos) : RefRepositoryFieldsOK(doc.repos[i][2]),
     state |-> [repos |-> RefReposDict(doc.repos),
                current_repo |-> OptValue(doc.current_repo)]]

\* reference mirror: State.model_dump_json()
RefStateJson(st) ==
    [repos |-> [i \in 1..Len(st.repos) |->
                   <<st.repos[i][1], RefRepositoryJson(st.repos[i][2])>>],
     current_repo |-> OptJson(st.current_repo)]

\* State()
EmptyState == [repos |-> <<>>, current_repo |-> "None"]

(***************************************************************************)
(* The daemon the clients talk to: state store, agent lifecycle manager    *)
(* and command dispatcher.                                                 *)
(***************************************************************************)
RepoNames == {"r1", "r2"}

\* the names the name generator draws from
AgentNames == {"a1", "a2"}

\* the order JSON members are written in
RepoOrder == <<"r1", "r2">>

AgentOrder == <<"a1", "a2">>

EmptyMap == [k \in {} |-> ""]

MapPut(f, k, v) == [x \in DOMAIN f \cup {k} |-> IF x = k THEN v ELSE f[x]]

MapDel(f, k) == [x \in DOMAIN f \ {k} |-> f[x]]

EmptyStore == [repos |-> EmptyMap, current_repo |-> ""]

NewRepository == [agents |-> EmptyMap, task_history |-> <<>>]

NewAgent(type, task) ==
    [type |-> type, pid |-> 0, ready_for_cleanup |-> FALSE, task |-> task,
     context_lost |-> FALSE]

\* the store with repository r's agent map replaced
WithAgents(r, agents) ==
    [store EXCEPT !.repos = MapPut(store.repos, r, [store.repos[r] EXCEPT !.agents = agents])]

\* the repository a command is aimed at: its repo argument, else the
\* current repository; "" when there is none
TargetOf(request) ==
    IF "repo" \in DOMAIN request.args THEN request.args["repo"] ELSE store.current_repo

\* a name generator that hands out any name of the pool
AnyNames(existing) == AgentNames

\* the names the generator may hand out: none that an agent of the
\* repository bears
FreshNames(existing) == AgentNames \ existing

\* responses of the dispatcher
Success(data) == [success |-> TRUE, data |-> data, error |-> "null"]

Failure(error) == [success |-> FALSE, data |-> "null", error |-> error]

NoPending == [active |-> FALSE, repo |-> "", name |-> "", byClient |-> FALSE, before |-> {}]

NoReply ==
    [seq |-> 0, method |-> "", target |-> "", registered |-> FALSE, before |-> {},
     outcome |-> NoOutcome, afterRejection |-> FALSE]

\* a client call returned: the method, the repository it was aimed at,
\* whether the store held that repository and which names its agents bore
\* when the call arrived, what the call handed to its caller, and whether
\* the call before it was a spawn_worker refused for the same repository
ReplyTo(method, target, registered, before, response) ==
    [seq |-> 1 - reply.seq, method |-> method, target |-> target,
     registered |-> registered, before |-> before,
     outcome |-> MethodResult(method, Responded(response)),
     afterRejection |-> /\ reply.method = "spawn_worker"
                        /\ ~reply.registered
                        /\ reply.target = target]

NoObserved == [kind |-> "none", state |-> EmptyState]

(* Serialisation of the store to the JSON document of get_state and of the *)
(* snapshot file.                                                          *)
JsonAgent(a) ==
    [type |-> a.type, worktree_path |-> "wt", tmux_window |-> "win",
     session_id |-> "sid", created_at |-> "t0", pid |-> <<a.pid>>,
     task |-> IF a.task = "" THEN "absent" ELSE a.task,
     summary |-> "absent", failure_reason |-> "absent", last_nudge |-> "absent",
     ready_for_cleanup |-> IF a.ready_for_cleanup THEN "true" ELSE "absent"]

JsonAgents(agents) ==
    LET names == SelectSeq(AgentOrder, LAMBDA n : n \in DOMAIN agents)
    IN [i \in 1..Len(names) |-> <<names[i], JsonAgent(agents[names[i]])>>]

JsonEntry(e) ==
    [name |-> e.name, task |-> "fix bug", branch |-> "work", pr_url |-> "absent",
     pr_number |-> <<>>, status |-> e.status, summary |-> "absent",
     failure_reason |-> "absent",
     created_at |-> CASE e.created_at = 0 -> "t0" [] e.created_at = 1 -> "t1" [] OTHER -> "t2",
     completed_at |-> "absent"]

JsonRepository(r) ==
    [github_url |-> "url", tmux_session |-> "mc",
     agents |-> JsonItems(JsonAgents(r.agents)),
     task_history |-> IF r.task_history = <<>> THEN JsonAbsent
                      ELSE JsonItems([i \in 1..Len(r.task_history) |->
                                         JsonEntry(r.task_history[i])]),
     merge_queue_config |-> JsonNoConfig("absent"),
     pr_shepherd_config |-> JsonNoConfig("absent"),
     target_branch |-> "absent"]

JsonState(st) ==
    LET names == SelectSeq(RepoOrder, LAMBDA n : n \in DOMAIN st.repos)
    IN [repos |-> [i \in 1..Len(names) |-> <<names[i], JsonRepository(st.repos[names[i]])>>],
        current_repo |-> IF st.current_repo = "" THEN "absent" ELSE st.current_repo]

(* The task history ledger.                                                *)
EntryNames == <<"e1", "e2", "e3", "e4">>

LedgerStatuses == {"merged", "failed", "open"}

\* the histories a repository can hold: entries are appended when their
\* task ends, which need not be the order their tasks were created in
Histories ==
    UNION {{[i \in 1..n |-> [name |-> EntryNames[i], status |-> st[i], created_at |-> pm[i]]] :
               st \in [1..n -> LedgerStatuses],
               pm \in {f \in [1..n -> 1..n] : \A i, j \in 1..n : i # j => f[i] # f[j]}} :
           n \in 0..MaxHistory}

\* entries by creation time, the most recent first
RECURSIVE RecentFirst(_)
RecentFirst(es) ==
    IF es = <<>> THEN <<>>
    ELSE LET k == CHOOSE i \in 1..Len(es) :
                     \A j \in 1..Len(es) : es[j].created_at <= es[i].created_at
         IN <<es[k]>> \o RecentFirst(SubSeq(es, 1, k - 1) \o SubSeq(es, k + 1, Len(es)))

\* the ledger's query: optional status filter, most recent first, at most
\* limit entries when a limit is given
TaskHistoryQuery(history, args) ==
    LET filtered == IF "status" \in DOMAIN args
                    THEN SelectSeq(history, LAMBDA e : e.status = args["status"])
                    ELSE history
        ordered == RecentFirst(filtered)
    IN IF "limit" \in DOMAIN args /\ args["limit"] < Len(ordered)
       THEN SubSeq(ordered, 1, args["limit"])
       ELSE ordered

\* task_history(repo, limit, status) of the client, answered by the daemon
TaskHistory(repo, limit, status) ==
    /\ observed.kind = "none"
    /\ LET request == task_history_request(repo, limit, status)
           target == TargetOf(request)
       IN /\ target \in DOMAIN store.repos
          /\ LET data == TaskHistoryQuery(store.repos[target].task_history, request.args)
             IN probe' = [op |-> "task_history", arg |-> status, limit |-> limit,
                          request |-> request, target |-> target,
                          result |-> [i \in 1..Len(data) |-> EntryValue(JsonEntry(data[i]))]]
    /\ UNCHANGED <<input, clientVars, daemonVars, fileVars>>

DaemonInit ==
    /\ store = EmptyStore
    /\ pending = NoPending
    /\ reply = NoReply
    /\ observed = NoObserved

\* a repository is registered with the daemon
RegisterRepo(r, makeCurrent) ==
    /\ observed.kind = "none"
    /\ r \notin DOMAIN store.repos
    /\ store' = [repos |-> MapPut(store.repos, r, NewRepository),
                 current_repo |-> IF makeCurrent THEN r ELSE store.current_repo]
    /\ UNCHANGED <<pending, reply, observed>>
    /\ UNCHANGED <<clientVars, typeVars, fileVars>>

\* spawn_worker{task, repo?} aimed at a repository the store does not hold
SpawnWorkerRejected(repo) ==
    /\ observed.kind = "none"
    /\ LET target == TargetOf(RequestOf("spawn_worker", repo))
       IN /\ target \notin DOMAIN store.repos
          /\ reply' = ReplyTo("spawn_worker", target, FALSE, {},
                              Failure("repository not found"))
    /\ UNCHANGED <<store, pending, observed>>
    /\ UNCHANGED <<clientVars, typeVars, fileVars>>

\* spawn, first critical section: a name is generated and the agent's entry
\* is reserved, fully populated, its process not yet started
SpawnReserve(target, type, byClient, name) ==
    /\ observed.kind = "none"
    /\ ~pending.active
    /\ target \in DOMAIN store.repos
    /\ name \in FreshNames(DOMAIN store.repos[target].agents)
    /\ store' = WithAgents(target,
                    MapPut(store.repos[target].agents, name,
                           NewAgent(type, IF type = "worker" THEN "fix bug" ELSE "")))
    /\ pending' = [active |-> TRUE, repo |-> target, name |-> name,
                   byClient |-> byClient,
                   before |-> IF byClient THEN DOMAIN store.repos[target].agents ELSE {}]
    /\ UNCHANGED <<reply, observed>>
    /\ UNCHANGED <<clientVars, typeVars, fileVars>>

\* spawn_worker{task, repo?} aimed at a repository of the store
SpawnWorkerReserve(repo, name) ==
    SpawnReserve(TargetOf(RequestOf("spawn_worker", repo)), "worker", TRUE, name)

\* spawn(repo, type) by the daemon itself
SpawnAgentReserve(r, type, name) == SpawnReserve(r, type, FALSE, name)

PendingPresent ==
    /\ pending.repo \in DOMAIN store.repos
    /\ pending.name \in DOMAIN store.repos[pending.repo].agents

\* spawn, second critical section: the process runs and its pid is recorded
SpawnLaunched ==
    /\ observed.kind = "none"
    /\ pending.active
    /\ IF PendingPresent
       THEN /\ store' = WithAgents(pending.repo,
                  [store.repos[pending.repo].agents EXCEPT ![pending.name].pid = 1])
            /\ reply' = IF pending.byClient
                        THEN ReplyTo("spawn_worker", pending.repo, TRUE, pending.before,
                                     Success(pending.name))
                        ELSE reply
       ELSE /\ store' = store
            /\ reply' = IF pending.byClient
                        THEN ReplyTo("spawn_worker", pending.repo, TRUE, pending.before,
                                     Failure("agent not found"))
                        ELSE reply
    /\ pending' = NoPending
    /\ UNCHANGED <<observed>>
    /\ UNCHANGED <<clientVars, typeVars, fileVars>>

\* spawn, the launch failed: the reserved entry is rolled back
SpawnLaunchFailed ==
    /\ observed.kind = "none"
    /\ pending.active
    /\ store' = IF PendingPresent
                THEN WithAgents(pending.repo,
                                MapDel(store.repos[pending.repo].agents, pending.name))
                ELSE store
    /\ reply' = IF pending.byClient
                THEN ReplyTo("spawn_worker", pending.repo, TRUE, pending.before,
                             Failure("spawn failed"))
                ELSE reply
    /\ pending' = NoPending
    /\ UNCHANGED <<observed>>
    /\ UNCHANGED <<clientVars, typeVars, fileVars>>

\* remove_agent{name, repo?}
RemoveAgent(name, repo) ==
    /\ observed.kind = "none"
    /\ LET target == TargetOf(RequestOf("remove_agent", repo))
       IN IF target \notin DOMAIN store.repos
          THEN /\ store' = store
               /\ reply' = ReplyTo("remove_agent", target, FALSE, {},
                                   Failure("repository not found"))
          ELSE IF name \notin DOMAIN store.repos[target].agents
          THEN /\ store' = store
               /\ reply' = ReplyTo("remove_agent", target, TRUE, {},
                                   Failure("agent not found"))
          ELSE /\ store' = WithAgents(target, MapDel(store.repos[target].agents, name))
               /\ reply' = ReplyTo("remove_agent", target, TRUE, {}, Success("null"))
    /\ UNCHANGED <<pending, observed>>
    /\ UNCHANGED <<clientVars, typeVars, fileVars>>

\* an agent's process exits unexpectedly
Crash(r, name) ==
    /\ observed.kind = "none"
    /\ r \in DOMAIN store.repos
    /\ name \in DOMAIN store.repos[r].agents
    /\ store.repos[r].agents[name].pid > 0
    /\ store' = WithAgents(r, [store.repos[r].agents EXCEPT ![name].pid = 0])
    /\ UNCHANGED <<pending, reply, observed>>
    /\ UNCHANGED <<clientVars, typeVars, fileVars>>

\* a worker or review agent reports its work done
MarkReadyForCleanup(r, name) ==
    /\ observed.kind = "none"
    /\ r \in DOMAIN store.repos
    /\ name \in DOMAIN store.repos[r].agents
    /\ store.repos[r].agents[name].type \in {"worker", "review"}
    /\ ~store.repos[r].agents[name].ready_for_cleanup
    /\ store' = WithAgents(r, [store.repos[r].agents EXCEPT ![name].ready_for_cleanup = TRUE])
    /\ UNCHANGED <<pending, reply, observed>>
    /\ UNCHANGED <<clientVars, typeVars, fileVars>>

\* reconcile() on one repository: a dead agent of a persistent type runs
\* again under its name, its task context lost; a dead agent that is ready
\* for cleanup leaves the store and enters the task history; any other dead
\* agent stays as it is
ReconcileRepo(r) ==
    LET agents == r.agents
        dead == {n \in DOMAIN agents : agents[n].pid = 0}
        respawn == {n \in dead : ref_is_persistent_agent_type(agents[n].type)}
        cleanup == {n \in dead \ respawn : agents[n].ready_for_cleanup}
        gone == SelectSeq(AgentOrder, LAMBDA n : n \in cleanup)
    IN [agents |-> [n \in DOMAIN agents \ cleanup |->
                       IF n \in respawn
                       THEN [agents[n] EXCEPT !.pid = 1, !.task = "", !.context_lost = TRUE]
                       ELSE agents[n]],
        task_history |-> r.task_history \o
                         [i \in 1..Len(gone) |->
                             [name |-> gone[i], status |-> "unknown", created_at |-> 0]]]

\* reconcile()
Reconcile ==
    /\ observed.kind = "none"
    /\ \A r \in DOMAIN store.repos :
          Len(ReconcileRepo(store.repos[r]).task_history) <= MaxHistory
    /\ store' = [store EXCEPT !.repos = [r \in DOMAIN store.repos |->
                                            ReconcileRepo(store.repos[r])]]
    /\ UNCHANGED <<pending, reply, observed>>
    /\ UNCHANGED <<clientVars, typeVars, fileVars>>

\* JSON documents a peer on the socket may answer get_state with
ForeignAgent(type, session_id, pid) ==
    [type |-> type, worktree_path |-> IF session_id = "absent" THEN "absent" ELSE "wt",
     tmux_window |-> IF session_id = "absent" THEN "absent" ELSE "win",
     session_id |-> session_id,
     created_at |-> IF session_id = "absent" THEN "absent" ELSE "t0",
     pid |-> <<pid>>, task |-> "absent", summary |-> "absent",
     failure_reason |-> "absent", last_nudge |-> "absent",
     ready_for_cleanup |-> "absent"]

ForeignRepo(agents) ==
    [github_url |-> "url", tmux_session |-> "mc", agents |-> JsonItems(agents),
     task_history |-> JsonAbsent, merge_queue_config |-> JsonNoConfig("absent"),
     pr_shepherd_config |-> JsonNoConfig("absent"), target_branch |-> "absent"]

ForeignDocs ==
    { \* the key "a1" twice in one agents object
      [repos |-> << <<"r1", ForeignRepo(<< <<"a1", ForeignAgent("worker", "sid", 0)>>,
                                           <<"a1", ForeignAgent("worker", "sid", 1)>> >>)>> >>,
       current_repo |-> "r1"],
      \* the key "r1" twice in the repos object
      [repos |-> << <<"r1", ForeignRepo(<< >>)>>,
                    <<"r1", ForeignRepo(<< <<"a1", ForeignAgent("supervisor", "sid", 1)>> >>)>> >>,
       current_repo |-> ""],
      \* an agent that has a name and a type and nothing else
      [repos |-> << <<"r1", ForeignRepo(<< <<"a1", ForeignAgent("worker", "absent", 0)>> >>)>> >>,
       current_repo |-> "r1"],
      \* an agent of a type outside the closed set
      [repos |-> << <<"r1", ForeignRepo(<< <<"a1", ForeignAgent("bogus", "sid", 1)>> >>)>> >>,
       current_repo |-> "r1"] }

\* what get_state() hands to its caller for the document doc
GetStateResult(doc) ==
    LET v == StateModelValidate(doc)
    IN IF v.ok THEN [kind |-> "state", state |-> v.state]
       ELSE [kind |-> "error", state |-> EmptyState]

\* get_state() answered by the daemon with a snapshot of its store
GetState ==
    /\ observed.kind = "none"
    /\ observed' = GetStateResult(JsonState(store))
    /\ UNCHANGED <<store, pending, reply>>
    /\ UNCHANGED <<clientVars, typeVars, fileVars>>

\* get_state() answered by some other peer
GetStateForeign(doc) ==
    /\ observed.kind = "none"
    /\ observed' = GetStateResult(doc)
    /\ UNCHANGED <<store, pending, reply>>
    /\ UNCHANGED <<clientVars, typeVars, fileVars>>

\* the caller is done with the State it got; a returned State is a value
\* that nothing the daemon does later can change
ObservedDropped ==
    /\ observed.kind # "none"
    /\ observed' = NoObserved
    /\ UNCHANGED <<store, pending, reply>>
    /\ UNCHANGED <<clientVars, typeVars, fileVars>>

(***************************************************************************)
(* The state file, StateReader and StateWatcher (state.py)                 *)
(***************************************************************************)
\* the agents of a State with their repository and name, in the order
\* the two nested loops over state.repos and repo.agents visit them
RECURSIVE AllAgents(_)
AllAgents(repos) ==
    IF repos = <<>> THEN <<>>
    ELSE LET r == Head(repos)
         IN [i \in 1..Len(r[2].agents) |->
                [repo |-> r[1], name |-> r[2].agents[i][1], agent |-> r[2].agents[i][2]]]
            \o AllAgents(Tail(repos))

\* get_active_workers(state)
get_active_workers(state) ==
    LET active == SelectSeq(AllAgents(state.repos),
                            LAMBDA x : x.agent.type = "worker" /\ x.agent.pid > 0)
    IN [i \in 1..Len(active) |->
           [repo |-> active[i].repo, name |-> active[i].name,
            task |-> active[i].agent.task, created_at |-> active[i].agent.created_at]]

\* cmd_agents: the label printed for every agent
cmd_agents(state) ==
    LET all == AllAgents(state.repos)
    IN [i \in 1..Len(all) |->
           [repo |-> all[i].repo, name |-> all[i].name,
            status |-> IF all[i].agent.pid > 0 THEN "running" ELSE "stopped"]]

(* The state file.  Its content is a text that is a JSON document or is    *)
(* not; its mtime grows with every write, creation and removal.            *)
MaxWrites == 3

ValidDocs ==
    {[repos |-> << >>, current_repo |-> "absent"],
     [repos |-> << <<"r1", ForeignRepo(<< <<"a1", ForeignAgent("worker", "sid", 1)>> >>)>> >>,
      current_repo |-> "r1"]}

\* a JSON document that is no State: an agent without its required fields
BadSchemaDoc ==
    [repos |-> << <<"r1", ForeignRepo(<< <<"a1", ForeignAgent("worker", "absent", 0)>> >>)>> >>,
     current_repo |-> "r1"]

FileTexts ==
    [json : {TRUE}, doc : ValidDocs \cup {BadSchemaDoc}]
        \cup [json : {FALSE}, doc : {BadSchemaDoc}]

NoFile == [exists |-> FALSE, text |-> [json |-> FALSE, doc |-> BadSchemaDoc], mtime |-> 1]

\* what a call returned or raised
Got(state) == [kind |-> "return", exc |-> "", state |-> state]

Threw(exc) == [kind |-> "raise", exc |-> exc, state |-> EmptyState]

NoResult == [kind |-> "none", exc |-> "", state |-> EmptyState]

\* read_text(), json.loads() and State.model_validate() on the file f
ReadState(f) ==
    IF ~f.exists THEN Threw("FileNotFoundError")
    ELSE IF ~f.text.json THEN Threw("JSONDecodeError")
    ELSE LET v == StateModelValidate(f.text.doc)
         IN IF v.ok THEN Got(v.state) ELSE Threw("ValidationError")

\* except clauses that turn only a JSONDecodeError into a StateError
ReadExceptJsonOnly(exc) ==
    IF exc = "JSONDecodeError" THEN Threw("StateError") ELSE Threw(exc)

\* the except clauses of read(): json.JSONDecodeError, then Exception
ReadExcept(exc) ==
    IF exc = "JSONDecodeError" THEN Threw("StateError") ELSE Threw("StateError")

NoRd == [op |-> "", pc |-> "idle", checked |-> FALSE, at |-> NoFile, result |-> NoResult]

\* a caller calls read() or read_or_empty()
ReaderCall(op) ==
    /\ rd.pc = "idle"
    /\ rd' = [NoRd EXCEPT !.op = op, !.pc = IF op = "read" THEN "exists" ELSE "or_empty"]
    /\ UNCHANGED <<file, w, batch>>
    /\ UNCHANGED <<clientVars, daemonVars, typeVars>>

\* read_or_empty(): if not self.exists(): return State()
ReadOrEmptyExists ==
    /\ rd.pc = "or_empty"
    /\ rd' = IF ~file.exists
             THEN [rd EXCEPT !.pc = "done", !.at = file, !.result = Got(EmptyState)]
             ELSE [rd EXCEPT !.pc = "exists"]
    /\ UNCHANGED <<file, w, batch>>
    /\ UNCHANGED <<clientVars, daemonVars, typeVars>>

\* read(): if not self.state_path.exists(): raise StateError
ReadExists ==
    /\ rd.pc = "exists"
    /\ rd' = IF ~file.exists
             THEN [rd EXCEPT !.pc = "done", !.at = file, !.result = Threw("StateError")]
             ELSE [rd EXCEPT !.pc = "try", !.checked = TRUE]
    /\ UNCHANGED <<file, w, batch>>
    /\ UNCHANGED <<clientVars, daemonVars, typeVars>>

\* read(): the try block and its except clauses
ReadTry ==
    /\ rd.pc = "try"
    /\ LET r == ReadState(file)
       IN rd' = [rd EXCEPT !.pc = "done", !.at = file,
                           !.result = IF r.kind = "raise" THEN ReadExcept(r.exc) ELSE r]
    /\ UNCHANGED <<file, w, batch>>
    /\ UNCHANGED <<clientVars, daemonVars, typeVars>>

\* the caller has its answer
ReaderDone ==
    /\ rd.pc = "done"
    /\ rd' = NoRd
    /\ UNCHANGED <<file, w, batch>>
    /\ UNCHANGED <<clientVars, daemonVars, typeVars>>

NoBatch == [state |-> FALSE, other |-> FALSE]

\* what a change of the state file adds to the changes awatch is collecting
Notified == IF w.watching THEN [batch EXCEPT !.state = TRUE] ELSE batch

\* a writer creates the state file or replaces its content
WriterWrites(text) ==
    /\ file.mtime <= MaxWrites
    /\ file' = [exists |-> TRUE, text |-> text, mtime |-> file.mtime + 1]
    /\ batch' = Notified
    /\ UNCHANGED <<rd, w>>
    /\ UNCHANGED <<clientVars, daemonVars, typeVars>>

\* a writer removes the state file
WriterRemoves ==
    /\ file.mtime <= MaxWrites
    /\ file.exists
    /\ file' = [file EXCEPT !.exists = FALSE, !.mtime = file.mtime + 1]
    /\ batch' = Notified
    /\ UNCHANGED <<rd, w>>
    /\ UNCHANGED <<clientVars, daemonVars, typeVars>>

\* StateWatcher.__init__: no stop event yet.  Beside the object's fields the
\* record keeps how the watcher is iterated, where the iteration stands,
\* whether stop() was ever called, how many states were handed out, the
\* mtime of the file the latest of them was read from, how often the
\* callback was invoked and the mtime of the file whose state it got last,
\* the file as the initial read and the latest batch found it, and what
\* that batch was and yielded.
NoWatcher ==
    [mode |-> "none", pc |-> "new", callback |-> "None", last_mtime |-> 0,
     stop_event |-> "None", stopCalled |-> FALSE, watching |-> FALSE,
     yields |-> 0, seen |-> 0, calls |-> 0, calledAt |-> 0,
     started |-> NoFile, initial |-> FALSE,
     cur |-> NoBatch, at |-> NoFile, batchDone |-> FALSE, batchYields |-> 0]

\* a callback invoked for whatever the read did
CallbackInvokedAlways(callback, r) == callback # "None"

\* `if self.callback: self.callback(state)`, reached when _read_state returned
CallbackInvoked(callback, r) == callback # "None" /\ r.kind = "return"

\* the watcher wr after the statements that follow the read r of the file f
AfterCallback(wr, r, f) ==
    IF CallbackInvoked(wr.callback, r)
    THEN [wr EXCEPT !.calls = wr.calls + 1, !.calledAt = f.mtime]
    ELSE wr

\* stop(): set the event if there is one
Stop ==
    /\ w.pc \in {"new", "consumer", "sleep", "awatch"}
    /\ ~w.stopCalled
    /\ w' = [w EXCEPT !.stopCalled = TRUE,
                      !.stop_event = IF w.stop_event = "clear" THEN "set" ELSE w.stop_event]
    /\ UNCHANGED <<file, rd, batch>>
    /\ UNCHANGED <<clientVars, daemonVars, typeVars>>

\* __next__ is called: last_mtime is taken from the file as it is now
NextCall ==
    /\ w.mode = "sync"
    /\ w.pc \in {"new", "consumer"}
    /\ w' = [w EXCEPT !.pc = "sleep",
                      !.last_mtime = IF file.exists THEN file.mtime ELSE 0]
    /\ UNCHANGED <<file, rd, batch>>
    /\ UNCHANGED <<clientVars, daemonVars, typeVars>>

\* __next__: time.sleep(debounce_ms / 1000)
NextSleep ==
    /\ w.mode = "sync"
    /\ w.pc = "sleep"
    /\ w' = [w EXCEPT !.pc = "poll"]
    /\ UNCHANGED <<file, rd, batch>>
    /\ UNCHANGED <<clientVars, daemonVars, typeVars>>

\* __next__: one poll of the file; a newer mtime is read, handed to the
\* callback and returned, and what _read_state or the callback raises
\* leaves __next__
NextPoll ==
    /\ w.mode = "sync"
    /\ w.pc = "poll"
    /\ IF file.exists /\ file.mtime > w.last_mtime
       THEN LET r == ReadState(file)
            IN w' = AfterCallback(
                      IF r.kind = "return" /\ w.callback # "raises"
                      THEN [w EXCEPT !.pc = "consumer", !.last_mtime = file.mtime,
                                     !.yields = w.yields + 1, !.seen = file.mtime]
                      ELSE [w EXCEPT !.pc = "raised", !.last_mtime = file.mtime],
                      r, file)
       ELSE w' = [w EXCEPT !.pc = "sleep"]
    /\ UNCHANGED <<file, rd, batch>>
    /\ UNCHANGED <<clientVars, daemonVars, typeVars>>

\* __aiter__: self._stop_event = asyncio.Event()
AiterStart ==
    /\ w.mode = "async"
    /\ w.pc = "new"
    /\ w' = [w EXCEPT !.pc = "initial", !.stop_event = "clear"]
    /\ UNCHANGED <<file, rd, batch>>
    /\ UNCHANGED <<clientVars, daemonVars, typeVars>>

\* __aiter__: the initial state, read outside any try block
AiterInitial ==
    /\ w.mode = "async"
    /\ w.pc = "initial"
    /\ IF file.exists
       THEN LET r == ReadState(file)
            IN w' = AfterCallback(
                      IF r.kind = "return" /\ w.callback # "raises"
                      THEN [w EXCEPT !.pc = "consumer", !.started = file, !.initial = TRUE,
                                     !.yields = w.yields + 1, !.seen = file.mtime]
                      ELSE [w EXCEPT !.pc = "raised", !.started = file],
                      r, file)
       ELSE w' = [w EXCEPT !.pc = "awatch", !.started = file, !.watching = TRUE]
    /\ UNCHANGED <<file, rd, batch>>
    /\ UNCHANGED <<clientVars, daemonVars, typeVars>>

\* the consumer asks for the next state: the generator goes on to awatch
AiterResume ==
    /\ w.mode = "async"
    /\ w.pc = "consumer"
    /\ w' = [w EXCEPT !.pc = "awatch", !.watching = TRUE]
    /\ UNCHANGED <<file, rd, batch>>
    /\ UNCHANGED <<clientVars, daemonVars, typeVars>>

\* some other file of the watched directory changes
OtherFileChanges ==
    /\ w.watching
    /\ ~batch.other
    /\ batch' = [batch EXCEPT !.other = TRUE]
    /\ UNCHANGED <<file, rd, w>>
    /\ UNCHANGED <<clientVars, daemonVars, typeVars>>

\* awatch hands over the changes it collected
AwatchDelivers ==
    /\ w.mode = "async"
    /\ w.pc = "awatch"
    /\ w.stop_event # "set"
    /\ batch # NoBatch
    /\ w' = [w EXCEPT !.pc = "batch", !.cur = batch, !.batchDone = FALSE,
                      !.batchYields = 0]
    /\ batch' = NoBatch
    /\ UNCHANGED <<file, rd>>
    /\ UNCHANGED <<clientVars, daemonVars, typeVars>>

\* awatch finds its stop_event set and ends the iteration
AwatchStops ==
    /\ w.mode = "async"
    /\ w.pc = "awatch"
    /\ w.stop_event = "set"
    /\ w' = [w EXCEPT !.pc = "ended"]
    /\ UNCHANGED <<file, rd, batch>>
    /\ UNCHANGED <<clientVars, daemonVars, typeVars>>

\* a loop over the changes that takes any path for the state file
BatchMatchesAny(changes) == changes.state \/ changes.other

\* the loop over the changes finds one whose path is the state file
BatchMatches(changes) == changes.state

\* __aiter__: the body of the async for, with its try / except Exception: pass
AiterBatch ==
    /\ w.mode = "async"
    /\ w.pc = "batch"
    /\ LET r == ReadState(file)
           yield == BatchMatches(w.cur) /\ r.kind = "return" /\ w.callback # "raises"
       IN w' = IF yield
               THEN AfterCallback([w EXCEPT !.pc = "consumer", !.at = file,
                                            !.batchDone = TRUE, !.batchYields = 1,
                                            !.yields = w.yields + 1, !.seen = file.mtime],
                                  r, file)
               ELSE IF BatchMatches(w.cur)
               THEN AfterCallback([w EXCEPT !.pc = "awatch", !.at = file,
                                            !.batchDone = TRUE], r, file)
               ELSE [w EXCEPT !.pc = "awatch", !.at = file, !.batchDone = TRUE]
    /\ UNCHANGED <<file, rd, batch>>
    /\ UNCHANGED <<clientVars, daemonVars, typeVars>>

FilesInit ==
    /\ file = NoFile
    /\ rd = NoRd
    /\ w = NoWatcher
    /\ batch = NoBatch


(***************************************************************************)
(* Calls of the type mirrors on their own                                  *)
(***************************************************************************)
Presence(v) == {"absent", v}

\* JSON agent objects handed to the mirrors
AgentInputs ==
    [type : AgentTypes \cup {"bogus"}, worktree_path : Presence("wt"),
     tmux_window : Presence("win"), session_id : Presence("sid"),
     created_at : Presence("t0"), pid : {<<>>, <<0>>, <<1>>}, task : {"absent"},
     summary : {"absent"}, failure_reason : {"absent"}, last_nudge : {"absent"},
     ready_for_cleanup : {"absent"}]

NoInput == ForeignAgent("worker", "sid", 0)

NoProbe == [op |-> "", arg |-> "", template |-> FALSE, reference |-> FALSE]

TypesInit ==
    /\ input = NoInput
    /\ probe = NoProbe

\* a caller asks both mirrors whether the type of an agent is persistent
CallIsPersistent ==
    /\ input.type \in AgentTypes
    /\ probe' = [op |-> "is_persistent_agent_type", arg |-> input.type,
                 template |-> is_persistent_agent_type(input.type),
                 reference |-> ref_is_persistent_agent_type(input.type)]
    /\ UNCHANGED <<input, clientVars, daemonVars, fileVars>>

\* parse_agent(data) / Agent.model_validate(data) of both mirrors
CallParseAgent ==
    /\ probe' = [op |-> "parse_agent", arg |-> input.type,
                 template |-> AgentFieldsOK(input),
                 reference |-> RefAgentFieldsOK(input)]
    /\ UNCHANGED <<input, clientVars, daemonVars, fileVars>>

\* the records are built from their required fields only: Agent(type=...,
\* worktree_path=..., tmux_window=..., session_id=..., created_at=...),
\* Repository(github_url=..., tmux_session=...), State(), MergeQueueConfig(),
\* and the two default_*_config() functions are called
CallConstructMinimal ==
    /\ AgentFieldsOK(input)
    /\ input.pid = <<>>
    /\ probe' = [op |-> "minimal", arg |-> input.type,
                 agent |-> AgentValue(input),
                 repository |-> RepositoryValue(
                     [github_url |-> "url", tmux_session |-> "mc",
                      agents |-> JsonAbsent, task_history |-> JsonAbsent,
                      merge_queue_config |-> JsonNoConfig("absent"),
                      pr_shepherd_config |-> JsonNoConfig("absent"),
                      target_branch |-> "absent"]),
                 state |-> EmptyState,
                 merge_queue |-> MergeQueueConfig(JsonConfig("absent", "absent")),
                 default_merge_queue |-> default_merge_queue_config,
                 default_pr_shepherd |-> default_pr_shepherd_config]
    /\ UNCHANGED <<input, clientVars, daemonVars, fileVars>>

\* in-memory values the mirrors are tried on; a datetime field holds a
\* datetime in the template and a string in the reference
AgentValues(mirror) ==
    [type : {"worker", "supervisor"}, worktree_path : {"wt"}, tmux_window : {"win"},
     session_id : {"sid"}, pid : {-1, 0, 1}, task : {"None", "", "fix bug"},
     summary : {"None", "done"}, failure_reason : {"None"},
     created_at : IF mirror = "template" THEN {"datetime0"} ELSE {"t0"},
     last_nudge : IF mirror = "template" THEN {"None", "datetime1"} ELSE {"None", "t1"},
     ready_for_cleanup : {"None", "True", "False"}]

EntryValues(mirror) ==
    [name : {"a1"}, task : {"fix bug"}, branch : {"work"}, pr_url : {"None"},
     pr_number : {<<>>, <<7>>}, status : {"merged", "failed"}, summary : {"None"},
     failure_reason : {"None"},
     created_at : IF mirror = "template" THEN {"datetime0"} ELSE {"t0"},
     completed_at : IF mirror = "template" THEN {"None", "datetime1"} ELSE {"None", "t1"}]

ConfigValues ==
    {NoConfig} \cup [none : {FALSE}, enabled : BOOLEAN, track_mode : {"all", "author"}]

RepositoryValues(mirror) ==
    [github_url : {"url"}, tmux_session : {"mc"},
     agents : {<<>>} \cup {<< <<"a1", a>> >> : a \in AgentValues(mirror)},
     task_history : {NoList, SomeList(<<>>)} \cup
                    {SomeList(<<e>>) : e \in EntryValues(mirror)},
     merge_queue_config : ConfigValues,
     pr_shepherd_config : {NoConfig},
     target_branch : {"None", "main"}]

StateValues(mirror) ==
    [repos : {<<>>} \cup {<< <<"r1", r>> >> : r \in RepositoryValues(mirror)},
     current_repo : {"None", "r1"}]

\* States the helpers of state.py and cli.py are tried on: any int is a
\* valid pid
WorkerAgents ==
    {[a EXCEPT !.type = t, !.pid = pid] :
        a \in {AgentValue(ForeignAgent("worker", "sid", 0))},
        t \in {"worker", "supervisor"}, pid \in {-1, 0, 1}}

WorkerRepos ==
    LET repo(agents) == [github_url |-> "url", tmux_session |-> "mc", agents |-> agents,
                         task_history |-> NoList, merge_queue_config |-> NoConfig,
                         pr_shepherd_config |-> NoConfig, target_branch |-> "None"]
    IN {repo(<<>>)} \cup {repo(<< <<"a1", a>> >>) : a \in WorkerAgents}
       \cup {repo(<< <<"a1", a>>, <<"a2", b>> >>) : a \in WorkerAgents, b \in WorkerAgents}

WorkerStates ==
    {[repos |-> << <<"r1", r>> >>, current_repo |-> "r1"] : r \in WorkerRepos}
    \cup {[repos |-> << <<"r1", r>>, <<"r2", q>> >>, current_repo |-> "None"] :
             r \in WorkerRepos, q \in {x \in WorkerRepos : Len(x.agents) <= 1}}

\* get_active_workers(state) is called and the agents command prints the
\* same State
CallGetActiveWorkers ==
    /\ input.kind = "workers"
    /\ probe.op = ""
    /\ probe' = [op |-> "get_active_workers", arg |-> input.mirror,
                 workers |-> get_active_workers(input.state),
                 labels |-> cmd_agents(input.state)]
    /\ UNCHANGED <<input, clientVars, daemonVars, fileVars>>

\* a State is written as JSON and the JSON is parsed back, by the mirror
\* the State belongs to
CallRoundTrip ==
    /\ input.kind = "state"
    /\ probe.op = ""
    /\ probe' = [op |-> "round_trip", arg |-> input.mirror,
                 back |-> IF input.mirror = "template"
                          THEN StateModelValidate(StateJson(input.state))
                          ELSE parse_state(RefStateJson(input.state))]
    /\ UNCHANGED <<input, clientVars, daemonVars, fileVars>>

Init == ClientInit /\ DaemonInit /\ TypesInit /\ FilesInit

\* the clients against a peer that answers what it likes
Next ==
    \/ \E client \in {"sync", "async"} : \E method \in MethodsOf(client) :
         \E repo \in RepoArgs : Call(client, method, repo)
    \/ \E result \in {"ok", "refused", "timeout", "enoent"} : Connect(result)
    \/ \E result \in {"ok", "timeout", "reset"} : Send(result)
    \/ \E chunk \in Chunks : RecvChunk(chunk)
    \/ RecvEof
    \/ \E result \in {"timeout", "reset"} : RecvFails(result)
    \/ \E doc \in ResponseDocs : Parse(doc)
    \/ CallReturns
    \/ SocketAppears
    \/ SocketDisappears

Spec == Init /\ [][Next]_vars

\* the daemon serving spawn_worker, remove_agent and get_state
NextDaemon ==
    \/ \E r \in RepoNames : \E makeCurrent \in BOOLEAN : RegisterRepo(r, makeCurrent)
    \/ \E repo \in {""} \cup RepoNames : SpawnWorkerRejected(repo)
    \/ \E repo \in {""} \cup RepoNames : \E name \in AgentNames :
         SpawnWorkerReserve(repo, name)
    \/ SpawnLaunched
    \/ SpawnLaunchFailed
    \/ \E name \in AgentNames : \E repo \in {""} \cup RepoNames : RemoveAgent(name, repo)
    \/ \E r \in RepoNames : \E name \in AgentNames : Crash(r, name)
    \/ GetState
    \/ \E doc \in ForeignDocs : GetStateForeign(doc)
    \/ ObservedDropped

InitDaemon == ClientInit /\ sockExists /\ DaemonInit /\ TypesInit /\ FilesInit

SpecDaemon == InitDaemon /\ [][NextDaemon]_vars

\* the lifecycle manager on one repository, agents of every type
NextLifecycle ==
    \/ RegisterRepo("r1", TRUE)
    \/ \E type \in AgentTypes : \E name \in AgentNames : SpawnAgentReserve("r1", type, name)
    \/ SpawnLaunched
    \/ SpawnLaunchFailed
    \/ \E name \in AgentNames : RemoveAgent(name, "r1")
    \/ \E name \in AgentNames : Crash("r1", name)
    \/ \E name \in AgentNames : MarkReadyForCleanup("r1", name)
    \/ Reconcile

SpecLifecycle == InitDaemon /\ [][NextLifecycle]_vars

\* the type mirrors called on any agent object
InitTypes ==
    /\ ClientInit /\ sockExists /\ DaemonInit /\ FilesInit
    /\ input \in AgentInputs
    /\ probe = NoProbe

NextTypes ==
    \/ CallIsPersistent
    \/ CallParseAgent
    \/ CallConstructMinimal

SpecTypes == InitTypes /\ [][NextTypes]_vars

\* task_history queries on a repository with a history
InitLedger ==
    /\ ClientInit /\ sockExists /\ TypesInit /\ FilesInit
    /\ store \in {[repos |-> [r \in {"r1"} |-> [agents |-> EmptyMap, task_history |-> h]],
                   current_repo |-> "r1"] : h \in Histories}
    /\ pending = NoPending
    /\ reply = NoReply
    /\ observed = NoObserved

NextLedger ==
    \E repo \in RepoArgs : \E limit \in {<<>>, <<0>>, <<1>>, <<2>>} :
        \E status \in {"", "merged", "failed"} : TaskHistory(repo, limit, status)

SpecLedger == InitLedger /\ [][NextLedger]_vars

\* read() and read_or_empty() beside a writer of the state file
InitReader ==
    /\ ClientInit /\ DaemonInit /\ TypesInit
    /\ file \in {NoFile} \cup [exists : {TRUE}, text : FileTexts, mtime : {1}]
    /\ rd = NoRd
    /\ w = NoWatcher
    /\ batch = NoBatch

NextReader ==
    \/ \E op \in {"read", "read_or_empty"} : ReaderCall(op)
    \/ ReadOrEmptyExists
    \/ ReadExists
    \/ ReadTry
    \/ ReaderDone
    \/ \E text \in FileTexts : WriterWrites(text)
    \/ WriterRemoves

SpecReader == InitReader /\ [][NextReader]_vars

\* a StateWatcher iterated beside a writer of the state file
InitWatch ==
    /\ ClientInit /\ DaemonInit /\ TypesInit
    /\ file \in {NoFile} \cup [exists : {TRUE}, text : FileTexts, mtime : {1}]
    /\ rd = NoRd
    /\ w \in {[NoWatcher EXCEPT !.mode = mode, !.callback = cb] :
                  mode \in {"sync", "async"}, cb \in {"None", "ok", "raises"}}
    /\ batch = NoBatch

NextWatch ==
    \/ Stop
    \/ NextCall
    \/ NextSleep
    \/ NextPoll
    \/ AiterStart
    \/ AiterInitial
    \/ AiterResume
    \/ AwatchDelivers
    \/ AwatchStops
    \/ AiterBatch
    \/ OtherFileChanges
    \/ \E text \in FileTexts : WriterWrites(text)
    \/ WriterRemoves

SpecWatch == InitWatch /\ [][NextWatch]_vars

\* the two clients side by side
InitTwins ==
    /\ ClientInit /\ sockExists /\ DaemonInit /\ FilesInit
    /\ input \in Behaviours
    /\ probe = [op |-> "", arg |-> "", sync |-> NoOutcome, async |-> NoOutcome]

NextTwins == \E method \in AsyncMethods : CallTwins(method)

SpecTwins == InitTwins /\ [][NextTwins]_vars

\* the mirrors and the helpers of state.py on whole States
InitStates ==
    /\ ClientInit /\ sockExists /\ DaemonInit /\ FilesInit
    /\ \/ \E mirror \in {"template", "reference"} :
             input \in [kind : {"state"}, mirror : {mirror}, state : StateValues(mirror)]
       \/ input \in [kind : {"workers"}, mirror : {"template"}, state : WorkerStates]
    /\ probe = NoProbe

NextStates ==
    \/ CallRoundTrip
    \/ CallGetActiveWorkers

SpecStates == InitStates /\ [][NextStates]_vars

(***************************************************************************)
(* Claims about the clients                                                *)
(***************************************************************************)
PingDone == pc = "done" /\ call.method = "ping"

\* C1: a ping() made while the socket file is absent and a ping() the daemon
\* answered with success=false hand different outcomes to the caller of the
\* same client, so the caller can tell the two apart.
C1_PingAbsentDistinguishable ==
    (/\ PingDone
     /\ lastPing.client = call.client
     /\ {cause, lastPing.cause} = {"socket_absent", "answered_fail"})
    => outcome # lastPing.outcome

\* transport failures of _send_request
TransportFailures ==
    {"socket_absent", "refused", "timeout_connect", "timeout_send", "timeout_recv",
     "empty", "malformed", "schema_invalid"}

\* C2: every transport failure of DaemonClient._send_request reaches the
\* caller as a DaemonError and as nothing else, and when the socket file is
\* absent no socket was created and nothing was written.
C2_TransportFailureIsDaemonError ==
    (pc = "done" /\ call.client = "sync" /\ cause \in TransportFailures)
    => /\ ~sent.ok
       /\ sent.exc.kind = "raise"
       /\ sent.exc.exc = "DaemonError"
       /\ (cause = "socket_absent" => sock = "none" /\ wire = <<>>)

\* C3: a call works on a connection of its own, writes exactly one
\* newline-terminated request on it before it reads, writes nothing after
\* that, and issues no further read once a newline has arrived.
C3_OneExchangePerConnection ==
    /\ Len(wire) <= 1
    /\ (pc \in {"idle", "connect", "send"} => wire = <<>>)
    /\ (pc = "send" => sock = "connected")
    /\ (pc \in {"recv", "parse"} =>
           /\ sock = "connected"
           /\ wire = <<[request |-> call.request, newline |-> TRUE]>>)
    /\ (pc = "recv" => ~HasNewline(buf))
    /\ (pc = "parse" => nRecv >= 1)

\* a response that arrived in several chunks has been read to its newline
C3_Witness ==
    /\ pc = "parse"
    /\ nRecv >= 2
    /\ HasNewline(buf)
    /\ Len(wire) = 1
    /\ call.method = "spawn_worker"

\* C4: on every exit of _send_request, by return or by exception, the
\* socket the call opened is closed.
C4_SocketClosedOnExit ==
    pc = "done" => sock \in {"none", "closed"}

\* C5: a data method whose response says success=false raises DaemonError
\* with the response's error text, "Unknown error" when that is absent or
\* empty, and returns no data.
C5_FailureResponseRaises ==
    (pc = "done" /\ call.method \in DataMethods /\ cause = "answered_fail")
    => /\ outcome.kind = "raise"
       /\ outcome.exc = "DaemonError"
       /\ outcome.value = ""
       /\ (sent.resp.error \in {"null", ""} => outcome.msg = "Unknown error")
       /\ (sent.resp.error \notin {"null", ""} => outcome.msg = sent.resp.error)

\* task_history got success=false with data attached and an error text
C5_Witness ==
    /\ pc = "done"
    /\ call.method = "task_history"
    /\ cause = "answered_fail"
    /\ sent.resp.data = "good"
    /\ sent.resp.error = "unknown command"
    /\ outcome = DaemonError("unknown command")

(***************************************************************************)
(* Claims about the daemon and the State its callers get                   *)
(***************************************************************************)
\* a client call returned in this step
CallAnswered == reply'.seq # reply.seq

\* the launch of the reserved worker succeeded in this step
LaunchRecorded ==
    /\ pending.active
    /\ reply'.target \in DOMAIN store'.repos
    /\ pending.name \in DOMAIN store'.repos[reply'.target].agents
    /\ store'.repos[reply'.target].agents[pending.name].pid > 0

KeysDistinct(d) == \A i, j \in 1..Len(d) : i # j => d[i][1] # d[j][1]

C8_AgentsFullyPopulated ==
    observed.kind = "state" =>
        \A i \in 1..Len(observed.state.repos) :
            LET agents == observed.state.repos[i][2].agents
            IN \A j \in 1..Len(agents) :
                  /\ agents[j][2].type \in AgentTypes
                  /\ agents[j][2].worktree_path # "absent"
                  /\ agents[j][2].tmux_window # "absent"
                  /\ agents[j][2].session_id # "absent"
                  /\ agents[j][2].created_at # "absent"

\* get_state() returned while a spawn_worker was between its two critical
\* sections: the State holds the reserved agent, not yet running
C8_Witness ==
    /\ observed.kind = "state"
    /\ pending.active
    /\ pending.byClient
    /\ \E i \in 1..Len(observed.state.repos) :
          /\ observed.state.repos[i][1] = pending.repo
          /\ \E j \in 1..Len(observed.state.repos[i][2].agents) :
                /\ observed.state.repos[i][2].agents[j][1] = pending.name
                /\ observed.state.repos[i][2].agents[j][2].pid = 0

\* C9: reconcile() makes a dead agent (pid 0) run again under its name if
\* and only if its type is supervisor, merge-queue, pr-shepherd, workspace or
\* generic-persistent; a dead worker or review agent is not made to run.
C9_ReconcileRespawnsPersistent ==
    [][Reconcile =>
          \A r \in DOMAIN store.repos : \A n \in DOMAIN store.repos[r].agents :
              store.repos[r].agents[n].pid = 0 =>
                  ((/\ n \in DOMAIN store'.repos[r].agents
                    /\ store'.repos[r].agents[n].pid > 0
                    /\ store'.repos[r].agents[n].type = store.repos[r].agents[n].type)
                   <=> store.repos[r].agents[n].type \in
                          {"supervisor", "merge-queue", "pr-shepherd", "workspace",
                           "generic-persistent"})
      ]_vars

\* a workspace agent runs again after reconcile() while a crashed review
\* agent beside it stays dead
C9_Witness ==
    /\ "r1" \in DOMAIN store.repos
    /\ DOMAIN store.repos["r1"].agents = {"a1", "a2"}
    /\ store.repos["r1"].agents["a1"].type = "workspace"
    /\ store.repos["r1"].agents["a1"].context_lost
    /\ store.repos["r1"].agents["a1"].pid > 0
    /\ store.repos["r1"].agents["a2"].type = "review"
    /\ store.repos["r1"].agents["a2"].pid = 0
    /\ ~pending.active

(***************************************************************************)
(* Claims about the type mirrors                                           *)
(***************************************************************************)
\* C10: is_persistent_agent_type answers true exactly for supervisor,
\* merge-queue, pr-shepherd, workspace and generic-persistent, false for
\* worker and review, and the template and the reference mirror agree.
C10_PersistentTypes ==
    probe.op = "is_persistent_agent_type" =>
        /\ probe.template <=> probe.arg \in {"supervisor", "merge-queue", "pr-shepherd",
                                              "workspace", "generic-persistent"}
        /\ (probe.arg \in {"worker", "review"} => ~probe.template)
        /\ probe.reference = probe.template

\* both mirrors were asked about workspace and said yes
C10_Witness ==
    /\ probe.op = "is_persistent_agent_type"
    /\ probe.arg = "workspace"
    /\ probe.template
    /\ probe.reference

\* C11: a valid in-memory State, whatever optional fields it leaves unset,
\* written as JSON and parsed back by its mirror validates and equals the
\* State that was written.
C11_StateRoundTrip ==
    probe.op = "round_trip" =>
        /\ probe.back.ok
        /\ probe.back.state = input.state

\* the round trip of a template State whose worker has an empty task, no
\* summary, no last_nudge and no ready_for_cleanup, in a repository without
\* task history, configs and target branch
C11_Witness ==
    /\ probe.op = "round_trip"
    /\ probe.arg = "template"
    /\ Len(input.state.repos) = 1
    /\ input.state.current_repo = "None"
    /\ input.state.repos[1][2].task_history = NoList
    /\ input.state.repos[1][2].merge_queue_config = NoConfig
    /\ input.state.repos[1][2].target_branch = "None"
    /\ Len(input.state.repos[1][2].agents) = 1
    /\ input.state.repos[1][2].agents[1][2].task = ""
    /\ input.state.repos[1][2].agents[1][2].summary = "None"
    /\ input.state.repos[1][2].agents[1][2].last_nudge = "None"
    /\ input.state.repos[1][2].agents[1][2].ready_for_cleanup = "None"
    /\ probe.back.state.repos[1][2].agents[1][2].task = ""

\* C17: built from their required fields only, an Agent has pid 0 and no
\* task and no ready_for_cleanup, a Repository has an empty agent map and no
\* task_history and no target_branch, State() has no repositories and no
\* current repository, MergeQueueConfig() equals default_merge_queue_config()
\* (enabled, track_mode all), and default_pr_shepherd_config() is enabled
\* with track_mode author.
C17_Defaults ==
    probe.op = "minimal" =>
        /\ probe.agent.pid = 0
        /\ probe.agent.task = "None"
        /\ probe.agent.ready_for_cleanup = "None"
        /\ probe.repository.agents = <<>>
        /\ probe.repository.task_history = NoList
        /\ probe.repository.target_branch = "None"
        /\ probe.state.repos = <<>>
        /\ probe.state.current_repo = "None"
        /\ probe.merge_queue = probe.default_merge_queue
        /\ probe.default_merge_queue.enabled
        /\ probe.default_merge_queue.track_mode = "all"
        /\ probe.default_pr_shepherd.enabled
        /\ probe.default_pr_shepherd.track_mode = "author"

\* a worker was built from its five required fields
C17_Witness ==
    /\ probe.op = "minimal"
    /\ probe.arg = "worker"
    /\ probe.agent.type = "worker"
    /\ probe.agent.session_id = "sid"
    /\ probe.agent.created_at = "datetime0"
    /\ input.pid = <<>>

\* C16: get_active_workers(state) holds exactly one record for each agent
\* of any repository that is a worker and runs, where an agent runs when
\* its pid is not 0, and no other record; the label of the agents command
\* is "running" for exactly the agents that run.
C16_ActiveWorkersExact ==
    probe.op = "get_active_workers" =>
        LET all == AllAgents(input.state.repos)
            runs(x) == x.agent.pid # 0
            records(x) == {i \in 1..Len(probe.workers) :
                              /\ probe.workers[i].repo = x.repo
                              /\ probe.workers[i].name = x.name}
        IN /\ \A k \in 1..Len(all) :
                 Cardinality(records(all[k])) =
                     IF all[k].agent.type = "worker" /\ runs(all[k]) THEN 1 ELSE 0
           /\ \A i \in 1..Len(probe.workers) :
                 \E k \in 1..Len(all) : i \in records(all[k])
           /\ \A k \in 1..Len(all) :
                 probe.labels[k].status = "running" <=> runs(all[k])

\* C12: task_history with a status filter s and a limit n returns at most n
\* entries, all of status s, the most recently created first, whatever the
\* limit; with status "merged" and limit 1 on a history that holds merged
\* entries it returns the single most recent merged entry.
C12_TaskHistoryLimitAndStatus ==
    probe.op = "task_history" =>
        LET history == store.repos[probe.target].task_history
            res == probe.result
            created(nm) == (CHOOSE i \in 1..Len(history) : history[i].name = nm)
            merged == {i \in 1..Len(history) : history[i].status = "merged"}
        IN /\ (probe.limit # <<>> => Len(res) <= probe.limit[1])
           /\ (probe.arg # "" => \A i \in 1..Len(res) : res[i].status = probe.arg)
           /\ \A i, j \in 1..Len(res) :
                 i < j => history[created(res[i].name)].created_at
                            >= history[created(res[j].name)].created_at
           /\ (probe.arg = "merged" /\ probe.limit = <<1>> /\ merged # {}) =>
                 /\ Len(res) = 1
                 /\ \A i \in merged :
                       history[i].created_at <= history[created(res[1].name)].created_at

\* a remove_agent call has just been answered
RemoveAgentAnswered == reply'.seq # reply.seq /\ reply'.method = "remove_agent"

C14_ReadReturnsStateOrStateError ==
    (rd.op = "read" /\ rd.pc = "done") =>
        LET valid == /\ rd.at.exists
                     /\ rd.at.text.json
                     /\ StateModelValidate(rd.at.text.doc).ok
        IN /\ rd.result.kind \in {"return", "raise"}
           /\ rd.result.kind = "raise" => rd.result.exc = "StateError"
           /\ ~valid => rd.result = Threw("StateError")
           /\ valid => rd.result = Got(StateModelValidate(rd.at.text.doc).state)

\* read() passed its existence check, the file was removed, and the read
\* raised StateError
C14_Witness ==
    /\ rd.op = "read" /\ rd.pc = "done"
    /\ rd.checked
    /\ ~rd.at.exists
    /\ rd.result = Threw("StateError")

\* C15: read_or_empty() returns the empty State when the file does not
\* exist and never fails because of a missing file, whatever a concurrent
\* writer does.
C15_ReadOrEmptyNeverFailsOnMissingFile ==
    (rd.op = "read_or_empty" /\ rd.pc = "done" /\ ~rd.at.exists) =>
        rd.result = Got(EmptyState)

\* C18: in synchronous iteration no change is lost.  A file modified after
\* the latest __next__ returned has to be returned by a later __next__ even
\* if nothing is written after it, so while a later __next__ polls, the
\* file's mtime has to be newer than the mtime that __next__ compares with.
C18_SyncChangeStaysDetectable ==
    (/\ w.mode = "sync"
     /\ w.pc \in {"sleep", "poll"}
     /\ w.yields >= 1
     /\ file.exists
     /\ file.mtime > w.seen) => w.last_mtime < file.mtime

\* C19: once stop() has been called no further state is yielded, whether it
\* was called before or during the iteration, synchronous or asynchronous.
C19_NoYieldAfterStop ==
    [][w.stopCalled => w'.yields = w.yields]_vars

\* C20 as stated: asynchronous iteration yields the current state first if
\* the file exists when the iteration starts, and for every batch of changes
\* yields one state when the batch holds a change of the state file and none
\* when it does not.
C20_OneStatePerStateFileBatch ==
    w.mode = "async" =>
        /\ (w.pc \notin {"new", "initial"} /\ w.started.exists) => w.initial
        /\ w.batchDone => w.batchYields = IF w.cur.state THEN 1 ELSE 0

\* C20, amended: the initial state is yielded, before any batch, exactly when
\* the initial read returns a State and the callback does not raise; a file
\* that exists and cannot be read as a State ends the iteration with the
\* exception.  A batch yields at most one state: one when it holds a change
\* of the state file and the read at that moment returns a State and the
\* callback does not raise, none otherwise.
C20_OneStatePerReadableBatch ==
    w.mode = "async" =>
        /\ w.pc \notin {"new", "initial"} =>
              /\ w.initial = (/\ ReadState(w.started).kind = "return"
                              /\ w.callback # "raises")
              /\ (w.started.exists /\ ~w.initial) => (w.pc = "raised" /\ ~w.batchDone)
        /\ w.batchDone =>
              w.batchYields = IF /\ w.cur.state
                                 /\ ReadState(w.at).kind = "return"
                                 /\ w.callback # "raises"
                              THEN 1 ELSE 0

\* a batch with a change of the state file, processed after the initial
\* state was yielded, yielded nothing because the file was no State
C20_Witness ==
    /\ w.mode = "async"
    /\ w.initial
    /\ w.batchDone
    /\ w.cur.state
    /\ w.at.exists
    /\ w.batchYields = 0
    /\ w.callback # "raises"

\* the watcher's next step reads the state file: the initial read of
\* __aiter__, a poll of __next__ that finds a newer mtime, or a batch with
\* a change of the state file
WatcherReads ==
    \/ w.pc = "initial" /\ file.exists
    \/ w.pc = "poll" /\ file.exists /\ file.mtime > w.last_mtime
    \/ w.pc = "batch" /\ BatchMatches(w.cur)

\* C21: a read of the state file that fails to parse or validate yields
\* nothing, invokes no callback and does not end the iteration with an
\* error, for the initial read and every later read, asynchronous and
\* synchronous.
C21_FailedReadIsSkipped ==
    [][(WatcherReads /\ w' # w /\ ReadState(file).kind = "raise") =>
          /\ w'.pc # "raised"
          /\ w'.yields = w.yields
          /\ w'.calls = w.calls]_vars

\* C22 as stated: with a callback configured, the callback has been invoked
\* exactly once for each state yielded, with that state, and for no other.
C22_CallbackOncePerYield ==
    w.callback # "None" =>
        /\ w.calls = w.yields
        /\ w.calls > 0 => w.calledAt = w.seen

\* C22, amended: the callback is invoked exactly once for each read that
\* returned a State, with that State and before it is handed on, and never
\* otherwise; the State is then yielded exactly when the callback returns
\* normally.  A State whose callback raises is not yielded.
C22_CallbackOncePerReturnedState ==
    [][w' # w =>
          LET returned == WatcherReads /\ ReadState(file).kind = "return"
          IN /\ w'.calls = w.calls + (IF returned /\ w.callback # "None" THEN 1 ELSE 0)
             /\ w'.yields = w.yields + (IF returned /\ w.callback # "raises" THEN 1 ELSE 0)
             /\ w'.yields <= w'.calls \/ w.callback = "None"
             /\ w'.calls # w.calls => w'.calledAt = file.mtime
             /\ w'.yields # w.yields => w'.seen = file.mtime]_vars

\* a batch read a State, the callback raised, and the asynchronous
\* iteration went on without yielding it
C22_Witness ==
    /\ w.mode = "async"
    /\ w.callback = "raises"
    /\ w.pc = "awatch"
    /\ w.batchDone /\ w.cur.state
    /\ w.calls >= 1
    /\ w.calledAt = w.at.mtime
    /\ w.yields = 0

\* two outcomes are the same: the same returned value, or an exception of
\* the same type
SameOutcome(a, b) ==
    /\ a.kind = b.kind
    /\ a.kind = "return" => a.value = b.value
    /\ a.kind = "raise" => a.exc = b.exc

\* C23: for the same behaviour of the daemon on the connection, a method
\* both clients have gives the same outcome on the DaemonClient and on the
\* AsyncDaemonClient.
C23_AsyncClientSameOutcome ==
    probe.op = "twins" => SameOutcome(probe.sync, probe.async)

====
